---------------------------- MODULE Spec2Model ----------------------------
(***************************************************************************)
(* Verification model of the Monado service core:                          *)
(*   - the per-client render-timing helper    (u_timing_frame.c, u_rt_..)  *)
(*   - the session wait_frame / begin_frame   (oxr_session_egl.c)          *)
(*   - the multi-client layer slots           (comp_multi_private.h)       *)
(*   - the IPC server client table and z-sort (ht_hand_math.hpp, server    *)
(*     process functions)                                                  *)
(*   - the display-timing pacing engine       (u_timing_frame.c, dt_..)    *)
(*   - the fake (open-loop) timing engine     (u_timing_fake.c)            *)
(*   - one client's layer stack as the render loop reads it                *)
(*     (ht_hand_math.hpp, _update_layers)                                  *)
(*   - global_state_lock and the threads that use the client table         *)
(*     (ht_hand_math.hpp, handle_listen, update_server_state,              *)
(*     _update_layers)                                                     *)
(*                                                                         *)
(* Every subsystem has its own specification (SpecRT, SpecSess, SpecMulti, *)
(* SpecServer, SpecDT, SpecFake, SpecLayers, SpecLock); the variables of   *)
(* the other subsystems stay at their initial values in it.  SpecDTInPhase *)
(* is SpecDT with a caller that makes every mark_point and info call in    *)
(* phase; SpecDTStale is SpecDT started with a full ring and a caller that *)
(* also names the frames that have left the ring; SpecState is SpecSess    *)
(* with a client that calls from one thread; SpecLoop is SpecServer with   *)
(* clients that only begin and end sessions.                               *)
(*                                                                         *)
(* Time is counted in units of 100 microseconds.  uint64_t arithmetic is   *)
(* arithmetic modulo 2^WordBits.                                           *)
(***************************************************************************)
EXTENDS Integers, Sequences, FiniteSets, TLC

VARIABLES
    \* --- per-client render-timing helper (struct u_rt_helper) ---
    urth,          \* [last_input, period, last_returned, frame_counter, frames]
    rt_now,        \* os_monotonic_get_ns() as seen by the helper
    rt_ret,        \* what the last u_rt_helper_predict returned
    rt_prev,       \* predicted display time returned by the predict before that (-1: none)
    rt_status,     \* "ok" | "hung" (loop never ends) | "aborted" (assert failed)
    rt_ndebug,     \* TRUE: built with NDEBUG (asserts compiled out)
    \* --- one session (struct oxr_session) and the threads calling into it ---
    sess,          \* the fields of struct oxr_session used by the frame calls
    sem,           \* count of sess->sem
    sem_waits,     \* completed os_semaphore_wait calls
    sem_posts,     \* completed os_semaphore_release calls
    thr,           \* per thread: position in wait_frame/begin_frame, locals, last result
    comp_frames,   \* frame ids handed out by xrt_comp_wait_frame
    sess_calls,    \* API calls made so far
    \* --- multi-client compositor layer slots (struct multi_compositor) ---
    mc,            \* per client: progress, scheduled, delivered (struct multi_layer_slot)
    tick_target,   \* display time the render loop's current tick targets (0: no tick yet)
    \* --- IPC server (struct ipc_server) ---
    threads,       \* per client slot: thread state, server_thread_index, client_state, queued_events
    active_client_index,
    last_active_client_index,
    running,       \* s->running
    srv_now,       \* os_monotonic_get_ns() as seen by the server
    srv_calls,     \* requests handled and loop rounds made so far
    render,        \* what _update_layers dispatched in the current tick: [done, ok, order],
                   \* the clients in its stack that had an invalid layer (bad), and
                   \* what epoll_wait reported at the end of the tick (epoll)
    \* --- display-timing pacing engine (struct display_timing) ---
    dt,            \* the fields of struct display_timing, frames included
    dt_now,        \* os_monotonic_get_ns() as seen by the engine
    dt_first,      \* the first frame id handed out after the start of the run
    dt_ret,        \* what the last dt_predict returned
    dt_prev,       \* predicted display time returned by the predict before that (-1: none)
    dt_last,       \* the call just made, when it was dt_info: its arguments and app_time_ns before it
    dt_status,     \* "ok" | "hung" (loop never ends) | "aborted" (assert failed)
    dt_ndebug,     \* TRUE: built with NDEBUG (asserts compiled out)
    dt_infos,      \* dt_info calls made so far
    dt_misuse,     \* calls made out of phase that went through (NDEBUG build)
    \* --- fake (open-loop) timing engine (struct fake_timing) ---
    ft,            \* the fields of struct fake_timing
    ft_created,    \* the struct as u_ft_fake_create left it
    ft_now,        \* os_monotonic_get_ns() as read by the last ft_predict
    ft_ret,        \* what the last ft_predict returned
    ft_calls,      \* calls made so far: [predicts, others] and the name of the last one
    ft_status,     \* "ok" | "aborted" (assert failed)
    ft_ndebug,     \* TRUE: built with NDEBUG (asserts compiled out)
    \* --- one client's layer stack as the render loop reads it ---
    render_state,  \* ics->render_state: num_layers and layers, each word with the
                   \* generation (submitted stack) that wrote it
    layer_sync,    \* the client's worker copying a submitted stack: [gen, n, todo]
    update_layers, \* the render loop in the layer loop of _update_layers: [pc, j, seen]
    \* --- global_state_lock and the threads that use the client table ---
    global_state_lock, \* the holder: the index of a client's worker, LockRender or LockNone
    worker,        \* per slot, the worker thread: [pc, r, leaving]
    rloop          \* the render thread in the z-sort or in handle_listen: [pc, slot, torn]

rt_vars == <<urth, rt_now, rt_ret, rt_prev, rt_status, rt_ndebug>>

sess_vars == <<sess, sem, sem_waits, sem_posts, thr, comp_frames, sess_calls>>

multi_vars == <<mc, tick_target>>

srv_vars ==
    <<threads, active_client_index, last_active_client_index, running, srv_now, srv_calls, render>>

dt_vars == <<dt, dt_now, dt_first, dt_ret, dt_prev, dt_last, dt_status, dt_ndebug, dt_infos, dt_misuse>>

fake_vars == <<ft, ft_created, ft_now, ft_ret, ft_calls, ft_status, ft_ndebug>>

layer_vars == <<render_state, layer_sync, update_layers>>

lock_vars == <<global_state_lock, worker, rloop>>

vars == <<rt_vars, sess_vars, multi_vars, srv_vars, dt_vars, fake_vars, layer_vars, lock_vars>>

\* What an action of one subsystem leaves alone: every other subsystem.
RtFrame == UNCHANGED <<sess_vars, multi_vars, srv_vars, dt_vars, fake_vars, layer_vars, lock_vars>>

SessFrame == UNCHANGED <<rt_vars, multi_vars, srv_vars, dt_vars, fake_vars, layer_vars, lock_vars>>

MultiFrame == UNCHANGED <<rt_vars, sess_vars, srv_vars, dt_vars, fake_vars, layer_vars, lock_vars>>

SrvFrame == UNCHANGED <<rt_vars, sess_vars, multi_vars, dt_vars, fake_vars, layer_vars, lock_vars>>

DtFrame == UNCHANGED <<rt_vars, sess_vars, multi_vars, srv_vars, fake_vars, layer_vars, lock_vars>>

FtFrame == UNCHANGED <<rt_vars, sess_vars, multi_vars, srv_vars, dt_vars, layer_vars, lock_vars>>

LayerFrame == UNCHANGED <<rt_vars, sess_vars, multi_vars, srv_vars, dt_vars, fake_vars, lock_vars>>

LockFrame ==
    UNCHANGED <<rt_vars, sess_vars, multi_vars, dt_vars, fake_vars, layer_vars,
                running, srv_now, render>>

----------------------------------------------------------------------------
(* Fixed-width integers *)

WordBits == 12

UintMod == 2 ^ WordBits

\* uint64_t result of an arithmetic expression
U64(x) == x % UintMod

\* (int64_t) cast of a uint64_t value
I64(x) == IF x >= UintMod \div 2 THEN x - UintMod ELSE x

----------------------------------------------------------------------------
(* Per-client render-timing helper: u_timing_frame.c 656-809               *)
(* The per-frame timestamps (predicted, wait_woke, begin, end_frame) and   *)
(* the field 'extra' are written and never read; they are not modelled.    *)

RtNumFrames == 2

MaxRtTime == 2
MaxRtPeriod == 2
MaxRtFrames == 3

U_RT_READY == "U_RT_READY"
U_RT_PREDICTED == "U_RT_PREDICTED"
U_RT_WAIT_LEFT == "U_RT_WAIT_LEFT"
U_RT_BEGUN == "U_RT_BEGUN"

RtIndex(frame_id) == frame_id % RtNumFrames

\* u_rt_helper_client_clear: every slot READY with frame_id -1
u_rt_helper_client_clear_frames == [i \in 0..(RtNumFrames - 1) |-> [state |-> U_RT_READY, frame_id |-> -1]]

\* u_rt_helper_init: U_ZERO then client_clear
u_rt_helper_init ==
    [last_input |-> 0, period |-> 0, last_returned |-> 0, frame_counter |-> 0,
     frames |-> u_rt_helper_client_clear_frames]

RtNoRet == [frame_id |-> 0, predicted_display_time |-> 0, wake_up_time |-> 0, period |-> 0]

\* The while loop of get_last_input_plus_period_at_least_greater_then.
\* Returns the value the loop exits with, -1 when an assert(val != 0) fires,
\* -2 when the loop never exits.
RECURSIVE RtWalk(_, _, _, _)
RtWalk(val, then_ns, period, fuel) ==
    IF val > then_ns THEN val
    ELSE IF fuel = 0 THEN -2
    ELSE LET nv == U64(val + period)
         IN  IF nv = 0 /\ ~rt_ndebug THEN -1
             ELSE IF nv = val THEN -2
             ELSE RtWalk(nv, then_ns, period, fuel - 1)

\* The search started one period after last_input (mutant).
get_last_input_plus_period_at_least_greater_then_SkipFirst(h, then_ns) ==
    RtWalk(U64(h.last_input + h.period), then_ns, h.period, UintMod)

\* get_last_input_plus_period_at_least_greater_then 656-668
get_last_input_plus_period_at_least_greater_then(h, then_ns) ==
    RtWalk(h.last_input, then_ns, h.period, UintMod)

\* Mutant of AtLeastNs: the clamp to the last returned time is dropped.
AtLeastNs_NoClamp(now_ns, last_returned) == now_ns

\* u_rt_helper_predict 706-711: "Don't return a time before the last returned"
AtLeastNs(now_ns, last_returned) ==
    IF now_ns < last_returned THEN last_returned ELSE now_ns

\* An assert of the helper on slot idx failed: debug builds abort, NDEBUG
\* builds go on.
RtAssertFails(ok) == ~ok /\ ~rt_ndebug

u_rt_helper_predict ==
    /\ rt_status = "ok"
    /\ urth.frame_counter < MaxRtFrames
    /\ LET frame_id == urth.frame_counter + 1
           at_least_ns == AtLeastNs(rt_now, urth.last_returned)
           predict_ns == get_last_input_plus_period_at_least_greater_then(urth, at_least_ns)
           index == RtIndex(frame_id)
           slot_ok == urth.frames[index].frame_id = -1 /\ urth.frames[index].state = U_RT_READY
       IN  IF predict_ns < 0
           THEN /\ urth' = [urth EXCEPT !.frame_counter = frame_id]
                /\ rt_status' = IF predict_ns = -1 THEN "aborted" ELSE "hung"
                /\ UNCHANGED <<rt_ret, rt_prev>>
           ELSE /\ rt_ret' = [frame_id |-> frame_id,
                              predicted_display_time |-> predict_ns,
                              wake_up_time |-> U64(predict_ns - urth.period),
                              period |-> urth.period]
                /\ rt_prev' = IF rt_ret.frame_id = 0 THEN -1 ELSE rt_ret.predicted_display_time
                /\ IF RtAssertFails(slot_ok)
                   THEN /\ urth' = [urth EXCEPT !.frame_counter = frame_id,
                                                !.last_returned = predict_ns]
                        /\ rt_status' = "aborted"
                   ELSE /\ urth' = [urth EXCEPT !.frame_counter = frame_id,
                                                !.last_returned = predict_ns,
                                                !.frames[index] = [state |-> U_RT_PREDICTED,
                                                                   frame_id |-> frame_id]]
                        /\ rt_status' = "ok"
    /\ UNCHANGED <<rt_now, rt_ndebug>>
    /\ RtFrame

\* The mark_* functions share one shape: two asserts, then the state of
\* the slot is set; discarded and delivered also set its frame_id to -1
\* (clear), the others leave the frame_id of the slot as it is.
RtMark(frame_id, from_states, to_state, clear) ==
    /\ rt_status = "ok"
    /\ LET index == RtIndex(frame_id)
           ok == urth.frames[index].frame_id = frame_id /\ urth.frames[index].state \in from_states
       IN  IF RtAssertFails(ok)
           THEN rt_status' = "aborted" /\ UNCHANGED urth
           ELSE /\ urth' = [urth EXCEPT !.frames[index] =
                                [state |-> to_state,
                                 frame_id |-> IF clear THEN -1 ELSE urth.frames[index].frame_id]]
                /\ UNCHANGED rt_status
    /\ UNCHANGED <<rt_now, rt_ret, rt_prev, rt_ndebug>>
    /\ RtFrame

u_rt_helper_mark_wait_woke(frame_id) == RtMark(frame_id, {U_RT_PREDICTED}, U_RT_WAIT_LEFT, FALSE)

u_rt_helper_mark_begin(frame_id) == RtMark(frame_id, {U_RT_WAIT_LEFT}, U_RT_BEGUN, FALSE)

u_rt_helper_mark_discarded(frame_id) == RtMark(frame_id, {U_RT_WAIT_LEFT, U_RT_BEGUN}, U_RT_READY, TRUE)

u_rt_helper_mark_delivered(frame_id) == RtMark(frame_id, {U_RT_BEGUN}, U_RT_READY, TRUE)

u_rt_helper_client_clear ==
    /\ rt_status = "ok"
    /\ urth.frames # u_rt_helper_client_clear_frames
    /\ urth' = [urth EXCEPT !.frames = u_rt_helper_client_clear_frames]
    /\ UNCHANGED <<rt_now, rt_ret, rt_prev, rt_status, rt_ndebug>>
    /\ RtFrame

u_rt_helper_new_sample(predict, min_period) ==
    /\ rt_status = "ok"
    /\ urth' = [urth EXCEPT !.last_input = predict, !.period = min_period]
    /\ UNCHANGED <<rt_now, rt_ret, rt_prev, rt_status, rt_ndebug>>
    /\ RtFrame

\* The monotonic clock moves on.
RtTick ==
    /\ rt_status = "ok"
    /\ rt_now < MaxRtTime
    /\ rt_now' = rt_now + 1
    /\ UNCHANGED <<urth, rt_ret, rt_prev, rt_status, rt_ndebug>>
    /\ RtFrame

RtIdle ==
    /\ urth = u_rt_helper_init
    /\ rt_now = 0
    /\ rt_ret = RtNoRet
    /\ rt_prev = -1
    /\ rt_status = "ok"
    /\ rt_ndebug = FALSE

RtInit ==
    /\ urth = u_rt_helper_init
    /\ rt_now = 0
    /\ rt_ret = RtNoRet
    /\ rt_prev = -1
    /\ rt_status = "ok"
    /\ rt_ndebug \in BOOLEAN

RtNext ==
    \/ u_rt_helper_predict
    \/ \E f \in 1..urth.frame_counter : u_rt_helper_mark_wait_woke(f)
    \/ \E f \in 1..urth.frame_counter : u_rt_helper_mark_begin(f)
    \/ \E f \in 1..urth.frame_counter : u_rt_helper_mark_discarded(f)
    \/ \E f \in 1..urth.frame_counter : u_rt_helper_mark_delivered(f)
    \/ u_rt_helper_client_clear
    \/ \E p \in 0..MaxRtTime, per \in 0..MaxRtPeriod : u_rt_helper_new_sample(p, per)
    \/ RtTick


----------------------------------------------------------------------------
(* Session frame calls: oxr_session_egl.c.                                 *)
(* The session has a compositor (xc != NULL); without one wait_frame       *)
(* returns before touching the counter or the semaphore.                   *)

NumThreads == 2
MaxCalls == 6

Threads == 1..NumThreads

XR_SUCCESS == "XR_SUCCESS"
XR_FRAME_DISCARDED == "XR_FRAME_DISCARDED"
XR_ERROR_INSTANCE_LOST == "XR_ERROR_INSTANCE_LOST"
XR_ERROR_RUNTIME_FAILURE == "XR_ERROR_RUNTIME_FAILURE"
XR_ERROR_CALL_ORDER_INVALID == "XR_ERROR_CALL_ORDER_INVALID"
XR_ERROR_SESSION_RUNNING == "XR_ERROR_SESSION_RUNNING"
XR_ERROR_SESSION_NOT_RUNNING == "XR_ERROR_SESSION_NOT_RUNNING"
XR_ERROR_SESSION_NOT_STOPPING == "XR_ERROR_SESSION_NOT_STOPPING"

\* Results of a compositor call made for the session.
XRT_SUCCESS == "XRT_SUCCESS"
XRT_ERROR_IPC_FAILURE == "XRT_ERROR_IPC_FAILURE"
XrtResults == {XRT_SUCCESS, XRT_ERROR_IPC_FAILURE}

\* os_semaphore_init(&sess->sem, 1)
SemInitial == 1

XR_SESSION_STATE_UNKNOWN == "XR_SESSION_STATE_UNKNOWN"
XR_SESSION_STATE_IDLE == "XR_SESSION_STATE_IDLE"
XR_SESSION_STATE_READY == "XR_SESSION_STATE_READY"
XR_SESSION_STATE_SYNCHRONIZED == "XR_SESSION_STATE_SYNCHRONIZED"
XR_SESSION_STATE_VISIBLE == "XR_SESSION_STATE_VISIBLE"
XR_SESSION_STATE_FOCUSED == "XR_SESSION_STATE_FOCUSED"
XR_SESSION_STATE_STOPPING == "XR_SESSION_STATE_STOPPING"
XR_SESSION_STATE_LOSS_PENDING == "XR_SESSION_STATE_LOSS_PENDING"
XR_SESSION_STATE_EXITING == "XR_SESSION_STATE_EXITING"

\* struct oxr_session as the allocation leaves it (zeroed).  events is the
\* list of the states pushed by oxr_event_push_XrEventDataSessionStateChanged
\* for this session, oldest first; ipc_failure_at is the length of that
\* list when a compositor call first returned XRT_ERROR_IPC_FAILURE (-1:
\* none did); xc_frame_calls is the list of the xrt_comp_discard_frame and
\* xrt_comp_begin_frame calls made for the session, with their frame ids.
oxr_session ==
    [has_begun |-> FALSE, state |-> XR_SESSION_STATE_UNKNOWN, frame_started |-> FALSE,
     active_wait_frames |-> 0, waited |-> 0, begun |-> 0,
     exiting |-> FALSE, has_ended_once |-> FALSE,
     compositor_visible |-> FALSE, compositor_focused |-> FALSE,
     events |-> <<>>, ipc_failure_at |-> -1, xc_frame_calls |-> <<>>]

\* A call of the compositor for a frame, as noted in xc_frame_calls.
xrt_comp_discard_frame(s, frame_id) ==
    [s EXCEPT !.xc_frame_calls = Append(@, [call |-> "discard_frame", frame_id |-> frame_id])]

xrt_comp_begin_frame(s, frame_id) ==
    [s EXCEPT !.xc_frame_calls = Append(@, [call |-> "begin_frame", frame_id |-> frame_id])]

\* oxr_session_change_state 185-190: the event is pushed, the state is set.
oxr_session_change_state(s, state) ==
    [s EXCEPT !.events = Append(@, state), !.state = state]

\* CALL_CHK 145-148 when the call returned XRT_ERROR_IPC_FAILURE: the
\* function returns XR_ERROR_INSTANCE_LOST; nothing of the session is
\* written (the failure is noted in ipc_failure_at).
CALL_CHK(s) ==
    [s EXCEPT !.ipc_failure_at = IF @ = -1 THEN Len(s.events) ELSE @]

\* oxr_session_create 869-880: semaphore at 1, no wait outstanding, state
\* IDLE then READY; the rest of the struct is zeroed by the allocation.
oxr_session_create ==
    oxr_session_change_state(
        oxr_session_change_state(oxr_session, XR_SESSION_STATE_IDLE),
        XR_SESSION_STATE_READY)

\* A client thread: where it is in a call (pc), the function it called
\* last (call), what that call returned (ret), and the count read by
\* oxr_session_frame_begin (awf).
ThrIdle == [pc |-> "idle", awf |-> 0, ret |-> "none", call |-> "none"]

is_running == sess.has_begun

CanCall(t) == thr[t].pc = "idle" /\ sess_calls < MaxCalls

\* The call in progress of thread t returns r.
Return(t, r) ==
    thr' = [thr EXCEPT ![t] = [pc |-> "idle", awf |-> 0, ret |-> r, call |-> @.call]]

\* Thread t calls the function named call, which returns r at once.
ReturnOf(t, call, r) ==
    thr' = [thr EXCEPT ![t] = [pc |-> "idle", awf |-> 0, ret |-> r, call |-> call]]

\* oxr_session_begin 228-254
oxr_session_begin(t, xret) ==
    /\ CanCall(t)
    /\ sess_calls' = sess_calls + 1
    /\ IF is_running
       THEN ReturnOf(t, "oxr_session_begin", XR_ERROR_SESSION_RUNNING) /\ UNCHANGED sess
       ELSE IF xret = XRT_ERROR_IPC_FAILURE
       THEN ReturnOf(t, "oxr_session_begin", XR_ERROR_INSTANCE_LOST) /\ sess' = CALL_CHK(sess)
       ELSE ReturnOf(t, "oxr_session_begin", XR_SUCCESS) /\ sess' = [sess EXCEPT !.has_begun = TRUE]
    /\ UNCHANGED <<sem, sem_waits, sem_posts, comp_frames>>
    /\ SessFrame

\* oxr_session_end without the check of the STOPPING state.
oxr_session_end_AnyState(t, xret) ==
    /\ CanCall(t)
    /\ sess_calls' = sess_calls + 1
    /\ IF ~is_running
       THEN ReturnOf(t, "oxr_session_end", XR_ERROR_SESSION_NOT_RUNNING) /\ UNCHANGED sess
       ELSE LET s2 == oxr_session_change_state(sess, XR_SESSION_STATE_IDLE)
                s3 == IF s2.exiting
                      THEN oxr_session_change_state(s2, XR_SESSION_STATE_EXITING)
                      ELSE oxr_session_change_state(s2, XR_SESSION_STATE_READY)
            IN  /\ ReturnOf(t, "oxr_session_end", XR_SUCCESS)
                /\ sess' = [s3 EXCEPT !.has_begun = FALSE]
    /\ UNCHANGED <<sem, sem_waits, sem_posts, comp_frames>>
    /\ SessFrame

\* oxr_session_end 256-292
oxr_session_end(t, xret) ==
    /\ CanCall(t)
    /\ sess_calls' = sess_calls + 1
    /\ IF ~is_running
       THEN ReturnOf(t, "oxr_session_end", XR_ERROR_SESSION_NOT_RUNNING) /\ UNCHANGED sess
       ELSE IF sess.state # XR_SESSION_STATE_STOPPING
       THEN ReturnOf(t, "oxr_session_end", XR_ERROR_SESSION_NOT_STOPPING) /\ UNCHANGED sess
       ELSE LET s1 == [sess EXCEPT !.waited = IF sess.waited > 0 THEN -1 ELSE sess.waited,
                                   !.begun = IF sess.begun > 0 THEN -1 ELSE sess.begun,
                                   !.frame_started = FALSE]
                s2 == oxr_session_change_state(s1, XR_SESSION_STATE_IDLE)
                s3 == IF s2.exiting
                      THEN oxr_session_change_state(s2, XR_SESSION_STATE_EXITING)
                      ELSE oxr_session_change_state(s2, XR_SESSION_STATE_READY)
            IN  IF xret = XRT_ERROR_IPC_FAILURE
                THEN ReturnOf(t, "oxr_session_end", XR_ERROR_INSTANCE_LOST) /\ sess' = CALL_CHK(s1)
                ELSE /\ ReturnOf(t, "oxr_session_end", XR_SUCCESS)
                     /\ sess' = [s3 EXCEPT !.has_begun = FALSE]
    /\ UNCHANGED <<sem, sem_waits, sem_posts, comp_frames>>
    /\ SessFrame

\* oxr_session_request_exit without the running check.
oxr_session_request_exit_Always(t) ==
    /\ CanCall(t)
    /\ sess_calls' = sess_calls + 1
    /\ ReturnOf(t, "oxr_session_request_exit", XR_SUCCESS)
    /\ sess' = [oxr_session_change_state(sess, XR_SESSION_STATE_STOPPING)
                   EXCEPT !.exiting = TRUE]
    /\ UNCHANGED <<sem, sem_waits, sem_posts, comp_frames>>
    /\ SessFrame

\* oxr_session_request_exit 294-317
oxr_session_request_exit(t) ==
    /\ CanCall(t)
    /\ sess_calls' = sess_calls + 1
    /\ IF ~is_running
       THEN ReturnOf(t, "oxr_session_request_exit", XR_ERROR_SESSION_NOT_RUNNING) /\ UNCHANGED sess
       ELSE LET s1 == IF sess.state = XR_SESSION_STATE_FOCUSED
                      THEN oxr_session_change_state(sess, XR_SESSION_STATE_VISIBLE)
                      ELSE sess
                s2 == IF s1.state = XR_SESSION_STATE_VISIBLE
                      THEN oxr_session_change_state(s1, XR_SESSION_STATE_SYNCHRONIZED)
                      ELSE s1
                s3 == IF ~s2.has_ended_once
                      THEN [oxr_session_change_state(s2, XR_SESSION_STATE_SYNCHRONIZED)
                               EXCEPT !.has_ended_once = TRUE]
                      ELSE s2
                s4 == oxr_session_change_state(s3, XR_SESSION_STATE_STOPPING)
            IN  /\ ReturnOf(t, "oxr_session_request_exit", XR_SUCCESS)
                /\ sess' = [s4 EXCEPT !.exiting = TRUE]
    /\ UNCHANGED <<sem, sem_waits, sem_posts, comp_frames>>
    /\ SessFrame

\* oxr_session_poll with the two checks in the other order.
oxr_session_poll_FocusFirst(t, has_event, visible, focused) ==
    /\ CanCall(t)
    /\ sess_calls' = sess_calls + 1
    /\ LET s1 == IF has_event
                 THEN [sess EXCEPT !.compositor_visible = visible, !.compositor_focused = focused]
                 ELSE sess
           s2 == IF s1.state = XR_SESSION_STATE_VISIBLE /\ s1.compositor_focused
                 THEN oxr_session_change_state(s1, XR_SESSION_STATE_FOCUSED) ELSE s1
           s3 == IF s2.state = XR_SESSION_STATE_SYNCHRONIZED /\ s2.compositor_visible
                 THEN oxr_session_change_state(s2, XR_SESSION_STATE_VISIBLE) ELSE s2
       IN  sess' = s3
    /\ ReturnOf(t, "oxr_session_poll", XR_SUCCESS)
    /\ UNCHANGED <<sem, sem_waits, sem_posts, comp_frames>>
    /\ SessFrame

\* oxr_session_poll 319-356 with the compositor events it drains: the last
\* state-change event (if any) sets compositor_visible / compositor_focused.
oxr_session_poll(t, has_event, visible, focused) ==
    /\ CanCall(t)
    /\ sess_calls' = sess_calls + 1
    /\ LET s1 == IF has_event
                 THEN [sess EXCEPT !.compositor_visible = visible, !.compositor_focused = focused]
                 ELSE sess
           s2 == IF s1.state = XR_SESSION_STATE_SYNCHRONIZED /\ s1.compositor_visible
                 THEN oxr_session_change_state(s1, XR_SESSION_STATE_VISIBLE) ELSE s1
           s3 == IF s2.state = XR_SESSION_STATE_VISIBLE /\ s2.compositor_focused
                 THEN oxr_session_change_state(s2, XR_SESSION_STATE_FOCUSED) ELSE s2
       IN  sess' = s3
    /\ ReturnOf(t, "oxr_session_poll", XR_SUCCESS)
    /\ UNCHANGED <<sem, sem_waits, sem_posts, comp_frames>>
    /\ SessFrame

\* oxr_session_frame_wait 553-572: the running check, then the counter goes
\* up under active_wait_frames_lock.
frame_wait_enter(t) ==
    /\ CanCall(t)
    /\ sess_calls' = sess_calls + 1
    /\ IF ~is_running
       THEN ReturnOf(t, "oxr_session_frame_wait", XR_ERROR_SESSION_NOT_RUNNING) /\ UNCHANGED sess
       ELSE /\ sess' = [sess EXCEPT !.active_wait_frames = sess.active_wait_frames + 1]
            /\ thr' = [thr EXCEPT ![t].pc = "wf_sem", ![t].call = "oxr_session_frame_wait"]
    /\ UNCHANGED <<sem, sem_waits, sem_posts, comp_frames>>
    /\ SessFrame

\* oxr_session_frame_wait 580: os_semaphore_wait blocks while the count is 0.
frame_wait_sem(t) ==
    /\ thr[t].pc = "wf_sem"
    /\ sem > 0
    /\ sem' = sem - 1
    /\ sem_waits' = sem_waits + 1
    /\ thr' = [thr EXCEPT ![t].pc = "wf_comp"]
    /\ UNCHANGED <<sess, sem_posts, comp_frames, sess_calls>>
    /\ SessFrame

\* oxr_session_frame_wait 586-617: xrt_comp_wait_frame writes
\* sess->frame_id.waited; then the checks of the predicted display time.
\* time_ok: the predicted display time is > 0; ts_ok: so is its conversion.
frame_wait_comp(t, xret, time_ok, ts_ok) ==
    /\ thr[t].pc = "wf_comp"
    /\ IF xret = XRT_ERROR_IPC_FAILURE
       THEN /\ Return(t, XR_ERROR_INSTANCE_LOST)
            /\ sess' = CALL_CHK(sess)
            /\ UNCHANGED comp_frames
       ELSE /\ comp_frames' = comp_frames + 1
            /\ sess' = [sess EXCEPT !.waited = comp_frames + 1]
            /\ IF ~time_ok \/ ~ts_ok
               THEN Return(t, XR_ERROR_RUNTIME_FAILURE)
               ELSE Return(t, XR_SUCCESS)
    /\ UNCHANGED <<sem, sem_waits, sem_posts, sess_calls>>
    /\ SessFrame

\* oxr_session_frame_begin without the check of the counter at 634-636.
frame_begin_enter_NoWaitCheck(t) ==
    /\ CanCall(t)
    /\ sess_calls' = sess_calls + 1
    /\ IF ~is_running
       THEN ReturnOf(t, "oxr_session_frame_begin", XR_ERROR_SESSION_NOT_RUNNING)
       ELSE thr' = [thr EXCEPT ![t].pc = "bf_started", ![t].call = "oxr_session_frame_begin",
                                 ![t].awf = sess.active_wait_frames]
    /\ UNCHANGED <<sess, sem, sem_waits, sem_posts, comp_frames>>
    /\ SessFrame

\* oxr_session_frame_begin 620-636: the running check and the read of the
\* counter under active_wait_frames_lock.
frame_begin_enter(t) ==
    /\ CanCall(t)
    /\ sess_calls' = sess_calls + 1
    /\ IF ~is_running
       THEN ReturnOf(t, "oxr_session_frame_begin", XR_ERROR_SESSION_NOT_RUNNING)
       ELSE IF sess.active_wait_frames = 0
       THEN ReturnOf(t, "oxr_session_frame_begin", XR_ERROR_CALL_ORDER_INVALID)
       ELSE thr' = [thr EXCEPT ![t].pc = "bf_started", ![t].call = "oxr_session_frame_begin",
                                 ![t].awf = sess.active_wait_frames]
    /\ UNCHANGED <<sess, sem, sem_waits, sem_posts, comp_frames>>
    /\ SessFrame

\* oxr_session_frame_begin 638-658 where a frame already begun is kept: no
\* xrt_comp_discard_frame call and the counter stays.
frame_begin_started_NoDiscard(t, xret) ==
    /\ thr[t].pc = "bf_started"
    /\ IF sess.frame_started
       THEN IF thr[t].awf # 2
            THEN Return(t, XR_ERROR_CALL_ORDER_INVALID) /\ UNCHANGED sess
            ELSE /\ UNCHANGED sess
                 /\ thr' = [thr EXCEPT ![t].pc = "bf_comp", ![t].ret = XR_FRAME_DISCARDED]
       ELSE /\ sess' = [sess EXCEPT !.frame_started = TRUE]
            /\ thr' = [thr EXCEPT ![t].pc = "bf_comp", ![t].ret = XR_SUCCESS]
    /\ UNCHANGED <<sem, sem_waits, sem_posts, comp_frames, sess_calls>>
    /\ SessFrame

\* oxr_session_frame_begin 638-658: a frame already begun is discarded when
\* two waits were counted, else the call is out of order.
frame_begin_started(t, xret) ==
    /\ thr[t].pc = "bf_started"
    /\ IF sess.frame_started
       THEN IF thr[t].awf # 2
            THEN Return(t, XR_ERROR_CALL_ORDER_INVALID) /\ UNCHANGED sess
            ELSE IF xret = XRT_ERROR_IPC_FAILURE
            THEN /\ Return(t, XR_ERROR_INSTANCE_LOST)
                 /\ sess' = CALL_CHK(xrt_comp_discard_frame(sess, sess.begun))
            ELSE /\ sess' = [xrt_comp_discard_frame(sess, sess.begun)
                                EXCEPT !.begun = -1,
                                       !.active_wait_frames = sess.active_wait_frames - 1]
                 /\ thr' = [thr EXCEPT ![t].pc = "bf_comp", ![t].ret = XR_FRAME_DISCARDED]
       ELSE /\ sess' = [sess EXCEPT !.frame_started = TRUE]
            /\ thr' = [thr EXCEPT ![t].pc = "bf_comp", ![t].ret = XR_SUCCESS]
    /\ UNCHANGED <<sem, sem_waits, sem_posts, comp_frames, sess_calls>>
    /\ SessFrame

\* oxr_session_frame_begin 659-667: xrt_comp_begin_frame, the frame ids
\* move on and the semaphore is released.
frame_begin_comp(t, xret) ==
    /\ thr[t].pc = "bf_comp"
    /\ IF xret = XRT_ERROR_IPC_FAILURE
       THEN /\ Return(t, XR_ERROR_INSTANCE_LOST)
            /\ sess' = CALL_CHK(xrt_comp_begin_frame(sess, sess.waited))
            /\ UNCHANGED <<sem, sem_posts>>
       ELSE /\ sess' = [xrt_comp_begin_frame(sess, sess.waited)
                           EXCEPT !.begun = sess.waited, !.waited = -1]
            /\ sem' = sem + 1
            /\ sem_posts' = sem_posts + 1
            /\ Return(t, thr[t].ret)
    /\ UNCHANGED <<sem_waits, comp_frames, sess_calls>>
    /\ SessFrame

\* oxr_session_frame_end (not in oxr_session_egl.c): the frame begun is
\* over and its wait is no longer outstanding; the first frame ended
\* synchronizes the session (has_ended_once, see 307-311).
oxr_session_frame_end(t, xret) ==
    /\ CanCall(t)
    /\ sess_calls' = sess_calls + 1
    /\ IF ~is_running
       THEN ReturnOf(t, "oxr_session_frame_end", XR_ERROR_SESSION_NOT_RUNNING) /\ UNCHANGED sess
       ELSE IF ~sess.frame_started
       THEN ReturnOf(t, "oxr_session_frame_end", XR_ERROR_CALL_ORDER_INVALID) /\ UNCHANGED sess
       ELSE IF xret = XRT_ERROR_IPC_FAILURE
       THEN ReturnOf(t, "oxr_session_frame_end", XR_ERROR_INSTANCE_LOST) /\ sess' = CALL_CHK(sess)
       ELSE LET s1 == [sess EXCEPT !.begun = -1,
                                   !.frame_started = FALSE,
                                   !.active_wait_frames = sess.active_wait_frames - 1]
                s2 == IF ~s1.has_ended_once
                      THEN [oxr_session_change_state(s1, XR_SESSION_STATE_SYNCHRONIZED)
                               EXCEPT !.has_ended_once = TRUE]
                      ELSE s1
            IN  ReturnOf(t, "oxr_session_frame_end", XR_SUCCESS) /\ sess' = s2
    /\ UNCHANGED <<sem, sem_waits, sem_posts, comp_frames>>
    /\ SessFrame

SessIdle ==
    /\ sess = oxr_session_create
    /\ sem = SemInitial
    /\ sem_waits = 0
    /\ sem_posts = 0
    /\ thr = [t \in Threads |-> ThrIdle]
    /\ comp_frames = 0
    /\ sess_calls = 0

SessInit == SessIdle

\* The steps of thread t.
SessCalls(t) ==
    \/ \E x \in XrtResults : oxr_session_begin(t, x)
    \/ \E x \in XrtResults : oxr_session_end(t, x)
    \/ oxr_session_request_exit(t)
    \/ \E e, v, f \in BOOLEAN : oxr_session_poll(t, e, v, f)
    \/ frame_wait_enter(t)
    \/ frame_wait_sem(t)
    \/ \E x \in XrtResults, a, b \in BOOLEAN : frame_wait_comp(t, x, a, b)
    \/ frame_begin_enter(t)
    \/ \E x \in XrtResults : frame_begin_started(t, x)
    \/ \E x \in XrtResults : frame_begin_comp(t, x)
    \/ \E x \in XrtResults : oxr_session_frame_end(t, x)

SessNext == \E t \in Threads : SessCalls(t)

----------------------------------------------------------------------------
(* Multi-client compositor slots: comp_multi_private.h declares the slots  *)
(* (struct multi_layer_slot 69-76, struct multi_compositor 129-145) and    *)
(* multi_compositor_deliver_any_frames (174-181); the functions that move  *)
(* the slots are modelled from the design description (section 4.F).       *)

(* The layers of a stack are not modelled: a slot is its display time and   *)
(* its active flag.                                                        *)

MaxMultiTime == 2

\* Two clients: the slots of one client are never touched for another.
MultiClients == {1, 2}

\* struct multi_layer_slot, zeroed
multi_layer_slot == [display_time_ns |-> 0, active |-> FALSE]

\* struct multi_compositor: the three slots of one client
multi_compositor ==
    [progress |-> multi_layer_slot, scheduled |-> multi_layer_slot, delivered |-> multi_layer_slot]

\* Mutant of DeliverDue: every scheduled stack is due.
DeliverDue_Always(slot, display_time_ns) == slot.active

\* A scheduled stack is due on a tick when its display time is not after
\* the tick's target.
DeliverDue(slot, display_time_ns) ==
    slot.active /\ slot.display_time_ns <= display_time_ns

\* multi_compositor_deliver_any_frames: under the slot lock, a due
\* scheduled stack moves to delivered and scheduled is cleared.
multi_compositor_deliver_any_frames(m, display_time_ns) ==
    IF DeliverDue(m.scheduled, display_time_ns)
    THEN [m EXCEPT !.delivered = m.scheduled, !.scheduled = multi_layer_slot]
    ELSE m

\* The client's layer_begin: a new stack is started in progress.
multi_layer_begin(c, display_time_ns) ==
    /\ mc' = [mc EXCEPT ![c].progress =
                 [display_time_ns |-> display_time_ns, active |-> TRUE]]
    /\ UNCHANGED tick_target
    /\ MultiFrame

\* The client's layer_commit (end_frame): progress is copied into
\* scheduled under the slot lock and cleared.
multi_layer_commit(c) ==
    /\ mc[c].progress.active
    /\ mc' = [mc EXCEPT ![c].scheduled = mc[c].progress, ![c].progress = multi_layer_slot]
    /\ UNCHANGED tick_target
    /\ MultiFrame

\* One tick of the render loop: the compositor's wait_frame gives the
\* target display time (not before the previous one), then every client's
\* due stack is delivered.
multi_render_tick(display_time_ns) ==
    /\ display_time_ns >= tick_target
    /\ tick_target' = display_time_ns
    /\ mc' = [c \in MultiClients |-> multi_compositor_deliver_any_frames(mc[c], display_time_ns)]
    /\ MultiFrame

MultiIdle ==
    /\ mc = [c \in MultiClients |-> multi_compositor]
    /\ tick_target = 0

MultiInit == MultiIdle

MultiNext ==
    \/ \E c \in MultiClients, t \in 1..MaxMultiTime : multi_layer_begin(c, t)
    \/ \E c \in MultiClients : multi_layer_commit(c)
    \/ \E t \in 1..MaxMultiTime : multi_render_tick(t)

----------------------------------------------------------------------------
(* IPC server: the client table, the active primary, the per-client event  *)
(* ring and the z-sorted layer dispatch (ht_hand_math.hpp 485-1405, the    *)
(* server process functions).  The request handlers of the client threads  *)
(* are modelled from the design description (sections 4.C, 4.D).            *)

IPC_MAX_CLIENTS == 3

IPC_EVENT_QUEUE_SIZE == 2

MaxSrvTime == 1

MaxZOrder == 1

MaxSrvCalls == 6

Clients == 0..(IPC_MAX_CLIENTS - 1)

EventSlots == 0..(IPC_EVENT_QUEUE_SIZE - 1)

UINT64_MAX == UintMod - 1

INT32_MIN == (-2147483647) - 1

IPC_THREAD_READY == "IPC_THREAD_READY"

IPC_THREAD_STARTING == "IPC_THREAD_STARTING"

IPC_THREAD_STOPPING == "IPC_THREAD_STOPPING"

XRT_COMPOSITOR_EVENT_NONE == "XRT_COMPOSITOR_EVENT_NONE"

XRT_COMPOSITOR_EVENT_STATE_CHANGE == "XRT_COMPOSITOR_EVENT_STATE_CHANGE"

XRT_COMPOSITOR_EVENT_OVERLAY_CHANGE == "XRT_COMPOSITOR_EVENT_OVERLAY_CHANGE"

SetMin(S) == CHOOSE x \in S : \A y \in S : x <= y

SetMax(S) == CHOOSE x \in S : \A y \in S : x >= y

\* struct ipc_queued_event, zeroed
ipc_queued_event ==
    [timestamp |-> 0, pending |-> FALSE, type |-> XRT_COMPOSITOR_EVENT_NONE,
     visible |-> FALSE, focused |-> FALSE]

\* struct ipc_app_state (ics->client_state), zeroed
ipc_app_state ==
    [session_active |-> FALSE, session_overlay |-> FALSE, session_visible |-> FALSE,
     session_focused |-> FALSE, z_order |-> 0]

\* One slot of s->threads after init_server_state: thread state, the slot
\* identity, the client state and the event ring.  last_overlay_event is
\* not a field of the code: it records the visibility carried by the last
\* overlay event enqueued for the client of this slot ("none" before any).
ipc_client_state ==
    [state |-> IPC_THREAD_READY,
     server_thread_index |-> -1,
     client_state |-> ipc_app_state,
     queued_events |-> [i \in EventSlots |-> ipc_queued_event],
     last_overlay_event |-> "none"]

\* find_event_slot: the first slot that is not pending; when all are
\* pending, the index left in oldest_event_index by the loop, which compares
\* the timestamp of slot 0 with UINT64_MAX in every round.
find_event_slot(cs) ==
    LET free == {i \in EventSlots : ~cs.queued_events[i].pending}
    IN  IF free # {} THEN SetMin(free)
        ELSE IF cs.queued_events[0].timestamp < UINT64_MAX
             THEN IPC_EVENT_QUEUE_SIZE - 1
             ELSE 0

\* transition_overlay_visibility
transition_overlay_visibility(cs, visible, timestamp) ==
    [cs EXCEPT !.queued_events[find_event_slot(cs)] =
        [timestamp |-> timestamp, pending |-> TRUE,
         type |-> XRT_COMPOSITOR_EVENT_OVERLAY_CHANGE,
         visible |-> visible, focused |-> FALSE],
               !.last_overlay_event = IF visible THEN "visible" ELSE "hidden"]

\* send_client_state
send_client_state(ics, timestamp) ==
    [ics EXCEPT !.queued_events[find_event_slot(ics)] =
        [timestamp |-> timestamp, pending |-> TRUE,
         type |-> XRT_COMPOSITOR_EVENT_STATE_CHANGE,
         visible |-> ics.client_state.session_visible,
         focused |-> ics.client_state.session_focused]]

\* handle_overlay_client_events
handle_overlay_client_events(ics, active_id, prev_active_id, timestamp) ==
    IF ~ics.client_state.session_overlay THEN ics
    ELSE IF active_id >= 0 /\ prev_active_id >= 0
         THEN transition_overlay_visibility(
                  transition_overlay_visibility(ics, FALSE, timestamp), TRUE, timestamp)
    ELSE IF active_id >= 0 /\ prev_active_id < 0
         THEN transition_overlay_visibility(ics, TRUE, timestamp)
    ELSE IF active_id < 0 /\ prev_active_id >= 0
         THEN transition_overlay_visibility(ics, FALSE, timestamp)
    ELSE ics

\* handle_focused_client_events
handle_focused_client_events(ics, active_id, prev_active_id, timestamp) ==
    IF active_id = -1 /\ prev_active_id = -1 THEN ics
    ELSE LET cleared == [ics EXCEPT !.client_state.session_focused = FALSE,
                                    !.client_state.session_visible = FALSE]
         IN  IF active_id >= 0
             THEN LET ov == IF cleared.client_state.session_overlay
                            THEN [cleared EXCEPT !.client_state.session_visible = TRUE]
                            ELSE cleared
                      pr == IF ov.server_thread_index = active_id
                            THEN [ov EXCEPT !.client_state.session_visible = TRUE,
                                            !.client_state.session_focused = TRUE]
                            ELSE ov
                  IN  send_client_state(pr, timestamp)
             ELSE IF cleared.client_state.session_overlay
                  THEN send_client_state(cleared, timestamp)
                  ELSE cleared

\* The server fields update_server_state works on.
ServerState == [threads |-> threads,
                active_client_index |-> active_client_index,
                last_active_client_index |-> last_active_client_index]

\* s->threads[index].ics.client_state as the code reads it; index -1 lies
\* before the array and the read gives whatever is stored there (oob).
ThreadsAt(s, index, oob) ==
    IF index >= 0 THEN s.threads[index].client_state ELSE oob

\* The values a read before the array can give.
OobStates ==
    {[ipc_app_state EXCEPT !.session_overlay = o, !.session_active = a] : o, a \in BOOLEAN}

\* update_server_state, given what the clock and an out-of-bounds read give.
update_server_state(s, timestamp, oob) ==
    IF /\ s.active_client_index >= 0
       /\ s.threads[s.active_client_index].client_state.session_active
       /\ s.active_client_index = s.last_active_client_index
    THEN s
    ELSE
        LET candidates == {i \in Clients :
                               /\ s.threads[i].client_state.session_overlay = FALSE
                               /\ s.threads[i].server_thread_index >= 0
                               /\ s.threads[i].client_state.session_active}
            set_idle == candidates = {}
            \* the loop has no break: the last match stays
            fallback_active_application ==
                IF candidates = {} THEN -1 ELSE SetMax(candidates)
            ics == ThreadsAt(s, s.active_client_index, oob)
            chosen == IF ~(/\ ics.session_overlay = FALSE
                           /\ s.active_client_index >= 0
                           /\ ics.session_active)
                      THEN fallback_active_application
                      ELSE s.active_client_index
            active == IF set_idle THEN -1 ELSE chosen
            prev == s.last_active_client_index
        IN  [threads |->
                [i \in Clients |->
                    IF s.threads[i].server_thread_index >= 0
                    THEN handle_overlay_client_events(
                             handle_focused_client_events(s.threads[i], active, prev, timestamp),
                             active, prev, timestamp)
                    ELSE s.threads[i]],
             active_client_index |-> active,
             last_active_client_index |-> active]

\* What epoll_wait reports when no descriptor is ready.
EpollNone == [error |-> FALSE, fds |-> <<>>]

\* Assign the server fields from the result of a handler, which ends at
\* clock time now_ns; the tick's dispatch record is over.
SrvReturn(s, now_ns) ==
    /\ threads' = s.threads
    /\ active_client_index' = s.active_client_index
    /\ last_active_client_index' = s.last_active_client_index
    /\ srv_now' = now_ns
    /\ srv_calls' = srv_calls + 1
    /\ render' = [done |-> FALSE, ok |-> TRUE, order |-> <<>>, bad |-> {}, epoll |-> EpollNone]
    /\ UNCHANGED running
    /\ SrvFrame

\* A request of client i is handled by its thread while the server runs.
Serving(i) ==
    /\ running
    /\ srv_calls < MaxSrvCalls
    /\ threads[i].server_thread_index >= 0

\* ipc_handle_session_create: the session starts inactive and invisible,
\* as an overlay with its z order when asked for.
ipc_handle_session_create(i, is_overlay, z_order, now_ns, oob) ==
    /\ Serving(i)
    /\ ~threads[i].client_state.session_active
    /\ LET cs == [threads[i].client_state EXCEPT
                     !.session_active = FALSE,
                     !.session_visible = FALSE,
                     !.session_overlay = is_overlay,
                     !.z_order = IF is_overlay THEN z_order ELSE @]
           s == [ServerState EXCEPT !.threads[i].client_state = cs]
       IN  SrvReturn(update_server_state(s, now_ns, oob), now_ns)

\* ipc_handle_session_begin
ipc_handle_session_begin(i, now_ns, oob) ==
    /\ Serving(i)
    /\ ~threads[i].client_state.session_active
    /\ LET s == [ServerState EXCEPT !.threads[i].client_state.session_active = TRUE]
       IN  SrvReturn(update_server_state(s, now_ns, oob), now_ns)

\* ipc_handle_session_end
ipc_handle_session_end(i, now_ns, oob) ==
    /\ Serving(i)
    /\ threads[i].client_state.session_active
    /\ LET s == [ServerState EXCEPT !.threads[i].client_state.session_active = FALSE]
       IN  SrvReturn(update_server_state(s, now_ns, oob), now_ns)

\* ipc_handle_system_set_primary_client: a control client names the primary.
ipc_handle_system_set_primary_client(client_id, now_ns, oob) ==
    /\ running
    /\ srv_calls < MaxSrvCalls
    /\ \E i \in Clients : threads[i].server_thread_index >= 0
    /\ LET s == [ServerState EXCEPT !.active_client_index = client_id]
       IN  SrvReturn(update_server_state(s, now_ns, oob), now_ns)

\* ipc_handle_compositor_poll_events: the client takes its oldest pending
\* event (the first one of the smallest timestamp).
ipc_handle_compositor_poll_events(i) ==
    /\ Serving(i)
    /\ LET pend == {k \in EventSlots : threads[i].queued_events[k].pending}
       IN  /\ pend # {}
           /\ LET oldest == SetMin({k \in pend :
                                 \A j \in pend : threads[i].queued_events[k].timestamp
                                                   <= threads[i].queued_events[j].timestamp})
                  s == [ServerState EXCEPT !.threads[i].queued_events[oldest].pending = FALSE]
              IN  SrvReturn(s, srv_now)

\* The end of a client thread (disconnect): the slot is given back, the
\* client state is zeroed and the server state is updated.
ipc_server_client_thread_exit(i, now_ns, oob) ==
    /\ Serving(i)
    /\ LET s == [ServerState EXCEPT
                    !.threads[i].state = IPC_THREAD_STOPPING,
                    !.threads[i].server_thread_index = -1,
                    !.threads[i].client_state = ipc_app_state]
       IN  SrvReturn(update_server_state(s, now_ns, oob), now_ns)

\* handle_listen: accept gives a connection (or fails), the first free slot
\* takes it.  The result is the new client table and the running flag.
handle_listen(accept_ok) ==
    LET free == {i \in Clients : threads[i].server_thread_index < 0}
        cs_index == SetMin(free)
        run == IF accept_ok THEN running ELSE FALSE
    IN  IF free = {}
        THEN [threads |-> threads, running |-> run]
        ELSE IF threads[cs_index].state \notin {IPC_THREAD_READY, IPC_THREAD_STOPPING}
        THEN [threads |-> threads, running |-> run]
        ELSE [threads |-> [threads EXCEPT ![cs_index].state = IPC_THREAD_STARTING,
                                          ![cs_index].server_thread_index = cs_index,
                                          ![cs_index].last_overlay_event = "none"],
              running |-> run]

\* What epoll_wait can report in one round of the loop: an error (ret < 0),
\* or the ready descriptors among the two that init_epoll registered, in
\* the order of the events array.
EpollEvents ==
    {[error |-> TRUE, fds |-> <<>>]}
    \cup {[error |-> FALSE, fds |-> q] :
              q \in {<<>>, <<"stdin">>, <<"listen">>,
                     <<"listen", "stdin">>, <<"stdin", "listen">>}}

\* The event tells the server to stop: an epoll error or data on stdin.
EpollShutdown(event) ==
    event.error \/ \E k \in 1..Len(event.fds) : event.fds[k] = "stdin"

\* check_epoll: an epoll error stops the server; the events are taken in
\* order, data on stdin stops the server and ends the function, a
\* connection at the listen socket is handled.
check_epoll(event, accept_ok) ==
    IF event.error THEN [threads |-> threads, running |-> FALSE]
    ELSE IF event.fds = <<>> THEN [threads |-> threads, running |-> running]
    ELSE IF event.fds[1] = "stdin" THEN [threads |-> threads, running |-> FALSE]
    ELSE LET l == handle_listen(accept_ok)
         IN  IF Len(event.fds) > 1 /\ event.fds[2] = "stdin"
             THEN [l EXCEPT !.running = FALSE]
             ELSE l

\* _update_layers, first loop and the primary's entry: the array z_data
FillZData ==
    [i \in Clients |->
        IF active_client_index >= 0 /\ i = active_client_index
        THEN [index |-> i, z_order |-> INT32_MIN]
        ELSE IF /\ threads[i].client_state.session_overlay
                /\ threads[i].client_state.session_active
        THEN [index |-> i, z_order |-> threads[i].client_state.z_order]
        ELSE [index |-> -1, z_order |-> -1]]

\* _overlay_sort_func
_overlay_sort_func(oa, ob) ==
    IF oa.z_order < ob.z_order THEN -1
    ELSE IF oa.z_order > ob.z_order THEN 1
    ELSE 0

ClientPerms == {p \in [Clients -> Clients] : \A i, j \in Clients : i # j => p[i] # p[j]}

\* qsort: some arrangement of the array that is in order for the comparison
\* function; the order of elements that compare equal is unspecified.
qsort(base) ==
    {[k \in Clients |-> base[p[k]]] :
        p \in {q \in ClientPerms :
                  \A k \in Clients : k + 1 \in Clients =>
                      _overlay_sort_func(base[q[k]], base[q[k + 1]]) <= 0}}

\* _update_layers, last loop: the clients whose layers were dispatched, in
\* order; a layer without swapchain or device (clients in bad) ends the
\* function with false.
RECURSIVE RenderStack(_, _, _)
RenderStack(z_data, i, bad) ==
    IF i = IPC_MAX_CLIENTS THEN [ok |-> TRUE, order |-> <<>>]
    ELSE IF z_data[i].index < 0 THEN RenderStack(z_data, i + 1, bad)
    ELSE IF z_data[i].index \in bad THEN [ok |-> FALSE, order |-> <<>>]
    ELSE LET rest == RenderStack(z_data, i + 1, bad)
         IN  [ok |-> rest.ok, order |-> <<z_data[i].index>> \o rest.order]

\* _update_layers: what the function can return and dispatch
_update_layers(bad) ==
    {RenderStack(z_data, 0, bad) : z_data \in qsort(FillZData)}

\* main_loop, one round, entered whatever s->running is.
main_loop_NoRunningCheck(bad, event, accept_ok) ==
    /\ srv_calls < MaxSrvCalls
    /\ \E r \in _update_layers(bad) :
           render' = [done |-> TRUE, ok |-> r.ok, order |-> r.order,
                      bad |-> {i \in bad : FillZData[i].index >= 0},
                      epoll |-> event]
    /\ LET l == check_epoll(event, accept_ok)
       IN  /\ threads' = l.threads
           /\ running' = l.running
    /\ srv_calls' = srv_calls + 1
    /\ UNCHANGED <<active_client_index, last_active_client_index, srv_now>>
    /\ SrvFrame

\* main_loop, one round (while s->running): xrt_comp_wait_frame and the
\* begin of the frame, the layers are dispatched, then check_epoll looks
\* at the sockets.  (The broadcast of the timing sample is the helper's
\* u_rt_helper_new_sample.)
main_loop(bad, event, accept_ok) ==
    /\ running
    /\ srv_calls < MaxSrvCalls
    /\ \E r \in _update_layers(bad) :
           render' = [done |-> TRUE, ok |-> r.ok, order |-> r.order,
                      bad |-> {i \in bad : FillZData[i].index >= 0},
                      epoll |-> event]
    /\ LET l == check_epoll(event, accept_ok)
       IN  /\ threads' = l.threads
           /\ running' = l.running
    /\ srv_calls' = srv_calls + 1
    /\ UNCHANGED <<active_client_index, last_active_client_index, srv_now>>
    /\ SrvFrame

\* init_server_state, on the zeroed server
SrvIdle ==
    /\ threads = [i \in Clients |-> ipc_client_state]
    /\ active_client_index = -1
    /\ last_active_client_index = -1
    /\ running = TRUE
    /\ srv_now = 0
    /\ srv_calls = 0
    /\ render = [done |-> FALSE, ok |-> TRUE, order |-> <<>>, bad |-> {}, epoll |-> EpollNone]

init_server_state == SrvIdle

\* The render loop and the clients beginning and ending their sessions,
\* under a clock that stands still.
LoopNext ==
    \/ \E bad \in SUBSET Clients, event \in EpollEvents, accept_ok \in BOOLEAN :
           main_loop(bad, event, accept_ok)
    \/ \E i \in Clients, oob \in OobStates :
           ipc_handle_session_begin(i, srv_now, oob)
    \/ \E i \in Clients, oob \in OobStates :
           ipc_handle_session_end(i, srv_now, oob)

SrvNext ==
    \/ \E bad \in SUBSET Clients, event \in EpollEvents, accept_ok \in BOOLEAN :
           main_loop(bad, event, accept_ok)
    \/ \E i \in Clients, is_overlay \in BOOLEAN, z \in 0..MaxZOrder,
          now_ns \in srv_now..MaxSrvTime, oob \in OobStates :
           ipc_handle_session_create(i, is_overlay, z, now_ns, oob)
    \/ \E i \in Clients, now_ns \in srv_now..MaxSrvTime, oob \in OobStates :
           ipc_handle_session_begin(i, now_ns, oob)
    \/ \E i \in Clients, now_ns \in srv_now..MaxSrvTime, oob \in OobStates :
           ipc_handle_session_end(i, now_ns, oob)
    \/ \E id \in Clients, now_ns \in srv_now..MaxSrvTime, oob \in OobStates :
           ipc_handle_system_set_primary_client(id, now_ns, oob)
    \/ \E i \in Clients : ipc_handle_compositor_poll_events(i)
    \/ \E i \in Clients, now_ns \in srv_now..MaxSrvTime, oob \in OobStates :
           ipc_server_client_thread_exit(i, now_ns, oob)

----------------------------------------------------------------------------
(* Display-timing pacing engine: u_timing_frame.c 31-622.                  *)
(* The when_.._ns timestamps and expected_done_time_ns of a frame are      *)
(* written or left zero and read only by the trace output; they are not    *)
(* modelled.  actual_present_time_ns and present_margin_ns are written by  *)
(* dt_info and read by adjust_app_time in the same call only; they are the *)
(* call's arguments (kept in dt_last).  dt_info ignores its                *)
(* desired_present_time_ns argument.                                       *)

NUM_FRAMES == 16

STATE_SKIPPED == -1

STATE_CLEARED == 0

STATE_PREDICTED == 1

STATE_WOKE == 2

STATE_BEGAN == 3

STATE_SUBMITTED == 4

STATE_INFO == 5

U_TIMING_POINT_WAKE_UP == "U_TIMING_POINT_WAKE_UP"

U_TIMING_POINT_BEGIN == "U_TIMING_POINT_BEGIN"

U_TIMING_POINT_SUBMIT == "U_TIMING_POINT_SUBMIT"

TimingPoints == {U_TIMING_POINT_WAKE_UP, U_TIMING_POINT_BEGIN, U_TIMING_POINT_SUBMIT}

\* 1 ms and 0.5 ms in units of 100 microseconds
U_TIME_1MS_IN_NS == 10

U_TIME_HALF_MS_IN_NS == 5

\* The frame period given to u_ft_display_timing_create (10 ms).
DtPeriod == 100

\* How far the clock has moved when dt_predict is called again.
DtClockStep == 60

MaxDtFrames == 2

MaxDtInfos == 1

\* How many calls the caller makes out of phase.
MaxDtMisuse == 1

\* Feedback given to dt_info: the actual present time relative to the
\* frame's desired present time, and the present margin relative to 1 ms.
DtActualOffsets == {-U_TIME_HALF_MS_IN_NS, U_TIME_HALF_MS_IN_NS - 1,
                    U_TIME_HALF_MS_IN_NS, U_TIME_HALF_MS_IN_NS + 1}

DtMarginOffsets ==
    LET a == (DtPeriod * 2) \div 100
    IN  {-(a + 1), -a, 0, a, a + 1}

\* struct frame, zeroed
frame ==
    [frame_id |-> 0, state |-> STATE_CLEARED, wake_up_time_ns |-> 0,
     current_app_time_ns |-> 0, desired_present_time_ns |-> 0,
     predicted_display_time_ns |-> 0, earliest_present_time_ns |-> 0]

\* get_percent_of_time
get_percent_of_time(time_ns, fraction_percent) == (time_ns * fraction_percent) \div 100

\* u_ft_display_timing_create
u_ft_display_timing_create(estimated_frame_period_ns) ==
    [frame_period_ns |-> estimated_frame_period_ns,
     present_offset_ns |-> U_TIME_1MS_IN_NS * 4,
     app_time_ns |-> get_percent_of_time(estimated_frame_period_ns, 10),
     app_time_max_ns |-> get_percent_of_time(estimated_frame_period_ns, 30),
     adjust_missed_ns |-> get_percent_of_time(estimated_frame_period_ns, 4),
     adjust_non_miss_ns |-> get_percent_of_time(estimated_frame_period_ns, 2),
     margin_ns |-> U_TIME_1MS_IN_NS,
     next_frame_id |-> 0,
     frames |-> [i \in 0..(NUM_FRAMES - 1) |-> frame]]

\* calc_total_app_time without the margin (mutant)
calc_total_app_time_NoMargin(d) == d.app_time_ns

\* calc_total_app_time
calc_total_app_time(d) == U64(d.app_time_ns + d.margin_ns)

\* calc_display_time_from_present_time
calc_display_time_from_present_time(d, desired_present_time_ns) ==
    U64(desired_present_time_ns + d.present_offset_ns)

\* is_within_of_each_other, inclusive at both ends (mutant)
is_within_of_each_other_Inclusive(l, r, range) ==
    LET t == I64(l) - I64(r)
    IN  (-I64(range) <= t) /\ (t <= I64(range))

\* is_within_of_each_other
is_within_of_each_other(l, r, range) ==
    LET t == I64(l) - I64(r)
    IN  (-I64(range) < t) /\ (t < I64(range))

\* is_within_half_ms, inclusive at both ends (mutant)
is_within_half_ms_Inclusive(l, r) ==
    LET t == I64(l) - I64(r)
    IN  (-U_TIME_HALF_MS_IN_NS <= t) /\ (t <= U_TIME_HALF_MS_IN_NS)

\* is_within_half_ms
is_within_half_ms(l, r) == is_within_of_each_other(l, r, U_TIME_HALF_MS_IN_NS)

\* get_frame: the ring index of a frame id
get_frame(frame_id) == frame_id % NUM_FRAMES

\* create_frame: the timing with the next frame id taken and its slot set
create_frame(d, state) ==
    [d EXCEPT !.next_frame_id = @ + 1,
              !.frames[get_frame(d.next_frame_id)].frame_id = d.next_frame_id,
              !.frames[get_frame(d.next_frame_id)].state = state]

\* get_latest_frame_with_state_at_least: the ring index of the frame found,
\* -1 for NULL
get_latest_frame_with_state_at_least(d, state) ==
    LET counts == {c \in 1..(NUM_FRAMES - 1) :
                      /\ d.next_frame_id >= c
                      /\ d.frames[get_frame(d.next_frame_id - c)].state >= state}
    IN  IF counts = {} THEN -1
        ELSE get_frame(d.next_frame_id - SetMin(counts))

\* An assert that fails ends the program, unless built with NDEBUG.
DtAssertFails(ok) == ~ok /\ ~dt_ndebug

\* The loop of walk_forward_through_frames: the first value of
\* desired_present_time_ns, stepping by the period in uint64_t, that is
\* greater than from_time_ns; -2 when no such value comes (the loop never
\* ends).  Each round of the recursion is one run up to a wrap-around; after
\* 'rounds' wrap-arounds the values repeat.
RECURSIVE DtWalk(_, _, _, _)
DtWalk(desired_present_time_ns, from_time_ns, period, rounds) ==
    IF desired_present_time_ns > from_time_ns THEN desired_present_time_ns
    ELSE LET k == (from_time_ns - desired_present_time_ns) \div period + 1
             v == desired_present_time_ns + k * period
         IN  IF v < UintMod THEN v
             ELSE IF rounds = 0 THEN -2
             ELSE DtWalk(U64(desired_present_time_ns
                             + ((UintMod - 1 - desired_present_time_ns) \div period + 1) * period),
                         from_time_ns, period, rounds - 1)

\* walk_forward_through_frames: the desired present time of the new frame
walk_forward_through_frames(d, last_present_time_ns, now_ns) ==
    DtWalk(U64(last_present_time_ns + d.frame_period_ns),
           U64(now_ns + calc_total_app_time(d)),
           d.frame_period_ns, d.frame_period_ns)

\* predict_next_frame, the choice of the desired present time: -1 when an
\* assert fails, -2 when the walk never ends
DtNextPresentTime(d, now_ns) ==
    LET last_predicted == get_latest_frame_with_state_at_least(d, STATE_PREDICTED)
        last_completed == get_latest_frame_with_state_at_least(d, STATE_INFO)
    IN  IF last_predicted = -1 /\ last_completed = -1
        THEN \* do_clean_slate_frame
             U64(now_ns + d.frame_period_ns * 10)
        ELSE IF last_completed = last_predicted
        THEN walk_forward_through_frames(
                 d, d.frames[last_completed].earliest_present_time_ns, now_ns)
        ELSE IF last_completed # -1
        THEN IF DtAssertFails(/\ last_predicted # -1
                              /\ d.frames[last_predicted].frame_id
                                     > d.frames[last_completed].frame_id)
             THEN -1
             ELSE LET diff_id == d.frames[last_predicted].frame_id
                                     - d.frames[last_completed].frame_id
                      adjusted_last_present_time_ns ==
                          U64(d.frames[last_completed].earliest_present_time_ns
                              + U64(diff_id) * d.frame_period_ns)
                  IN  walk_forward_through_frames(d, adjusted_last_present_time_ns, now_ns)
        ELSE walk_forward_through_frames(
                 d, d.frames[last_predicted].predicted_display_time_ns, now_ns)

\* predict_next_frame: the timing with the new frame filled in
predict_next_frame(d, now_ns) ==
    LET desired == DtNextPresentTime(d, now_ns)
        i == get_frame(d.next_frame_id)
    IN  [create_frame(d, STATE_PREDICTED) EXCEPT
            !.frames[i].desired_present_time_ns = desired,
            !.frames[i].predicted_display_time_ns =
                calc_display_time_from_present_time(d, desired),
            !.frames[i].wake_up_time_ns = U64(desired - calc_total_app_time(d) + UintMod),
            !.frames[i].current_app_time_ns = d.app_time_ns]

\* adjust_app_time: the new app_time_ns, for frame f with the feedback
\* just stored in it
adjust_app_time(d, f, actual_present_time_ns, present_margin_ns) ==
    IF /\ actual_present_time_ns > f.desired_present_time_ns
       /\ ~is_within_half_ms(actual_present_time_ns, f.desired_present_time_ns)
    THEN LET app_time_ns == U64(d.app_time_ns + d.adjust_missed_ns)
         IN  IF app_time_ns > d.app_time_max_ns THEN d.app_time_max_ns ELSE app_time_ns
    ELSE IF is_within_of_each_other(present_margin_ns, d.margin_ns, d.adjust_non_miss_ns)
    THEN d.app_time_ns
    ELSE IF present_margin_ns > d.margin_ns
    THEN U64(d.app_time_ns - d.adjust_non_miss_ns + UintMod)
    ELSE U64(d.app_time_ns + d.adjust_non_miss_ns)

DtNoRet ==
    [frame_id |-> -1, wake_up_time_ns |-> 0, desired_present_time_ns |-> 0,
     present_slop_ns |-> 0, predicted_display_time_ns |-> 0,
     predicted_display_period_ns |-> 0, min_display_period_ns |-> 0]

DtNoCall ==
    [op |-> "none", frame_id |-> 0, app_time_before |-> 0,
     actual_present_time_ns |-> 0, present_margin_ns |-> 0]

\* A call is made while the program runs.
DtCall == dt_status = "ok"

\* A call whose assert holds (in_phase) or not: the caller makes a bounded
\* number of calls out of phase.
DtPhase(in_phase) ==
    /\ in_phase \/ dt_misuse < MaxDtMisuse
    /\ dt_misuse' = IF in_phase THEN dt_misuse ELSE dt_misuse + 1

\* dt_predict, which reads the clock
dt_predict ==
    /\ DtCall
    /\ dt.next_frame_id - dt_first < MaxDtFrames
    /\ dt_now' = dt_now + DtClockStep
    /\ LET desired == DtNextPresentTime(dt, dt_now)
           d == predict_next_frame(dt, dt_now)
           f == d.frames[get_frame(dt.next_frame_id)]
       IN  IF desired < 0
           THEN /\ dt_status' = (IF desired = -1 THEN "aborted" ELSE "hung")
                /\ UNCHANGED <<dt, dt_ret, dt_prev, dt_last>>
           ELSE /\ dt' = d
                /\ dt_ret' = [frame_id |-> f.frame_id,
                              wake_up_time_ns |-> f.wake_up_time_ns,
                              desired_present_time_ns |-> f.desired_present_time_ns,
                              present_slop_ns |-> U_TIME_HALF_MS_IN_NS,
                              predicted_display_time_ns |-> f.predicted_display_time_ns,
                              predicted_display_period_ns |-> dt.frame_period_ns,
                              min_display_period_ns |-> dt.frame_period_ns]
                /\ dt_prev' = (IF dt_ret.frame_id = -1 THEN -1
                               ELSE dt_ret.predicted_display_time_ns)
                /\ dt_last' = DtNoCall
                /\ UNCHANGED dt_status
    /\ UNCHANGED <<dt_first, dt_ndebug, dt_infos, dt_misuse>>
    /\ DtFrame

\* The state a timing point asserts and the state it sets.
PointFrom(point) ==
    IF point = U_TIMING_POINT_WAKE_UP THEN STATE_PREDICTED
    ELSE IF point = U_TIMING_POINT_BEGIN THEN STATE_WOKE
    ELSE STATE_BEGAN

PointTo(point) ==
    IF point = U_TIMING_POINT_WAKE_UP THEN STATE_WOKE
    ELSE IF point = U_TIMING_POINT_BEGIN THEN STATE_BEGAN
    ELSE STATE_SUBMITTED

\* dt_mark_point
dt_mark_point(point, frame_id) ==
    /\ DtCall
    /\ DtPhase(dt.frames[get_frame(frame_id)].state = PointFrom(point))
    /\ LET i == get_frame(frame_id)
       IN  IF DtAssertFails(dt.frames[i].state = PointFrom(point))
           THEN /\ dt_status' = "aborted"
                /\ UNCHANGED <<dt, dt_last>>
           ELSE /\ dt' = [dt EXCEPT !.frames[i].state = PointTo(point)]
                /\ dt_last' = DtNoCall
                /\ UNCHANGED dt_status
    /\ UNCHANGED <<dt_now, dt_first, dt_ret, dt_prev, dt_ndebug, dt_infos>>
    /\ DtFrame

\* dt_info
dt_info(frame_id, actual_present_time_ns, earliest_present_time_ns, present_margin_ns) ==
    /\ DtCall
    /\ dt_infos < MaxDtInfos
    /\ dt_infos' = dt_infos + 1
    /\ DtPhase(dt.frames[get_frame(frame_id)].state = STATE_SUBMITTED)
    /\ LET i == get_frame(frame_id)
           f == [dt.frames[i] EXCEPT
                    !.earliest_present_time_ns = earliest_present_time_ns,
                    !.state = STATE_INFO]
       IN  IF DtAssertFails(dt.frames[i].state = STATE_SUBMITTED)
           THEN /\ dt_status' = "aborted"
                /\ UNCHANGED <<dt, dt_last>>
           ELSE /\ dt' = [dt EXCEPT !.frames[i] = f,
                                    !.app_time_ns =
                                        adjust_app_time(dt, f, actual_present_time_ns,
                                                        present_margin_ns)]
                /\ dt_last' = [op |-> "info", frame_id |-> frame_id,
                               app_time_before |-> dt.app_time_ns,
                               actual_present_time_ns |-> actual_present_time_ns,
                               present_margin_ns |-> present_margin_ns]
                /\ UNCHANGED dt_status
    /\ UNCHANGED <<dt_now, dt_first, dt_ret, dt_prev, dt_ndebug>>
    /\ DtFrame

\* One frame handled in phase: dt_predict at now_ns, the three marks, and
\* dt_info with the earliest present time at the desired one, the actual
\* present time da after it and the margin dm above the target.
DtCycle(d, now_ns, da, dm) ==
    LET i == get_frame(d.next_frame_id)
    IN  CHOOSE r \in
            {[p EXCEPT
                 !.frames[i].earliest_present_time_ns = p.frames[i].desired_present_time_ns,
                 !.frames[i].state = STATE_INFO,
                 !.app_time_ns =
                     adjust_app_time(p, p.frames[i],
                                     U64(p.frames[i].desired_present_time_ns + da + UintMod),
                                     U64(p.margin_ns + dm + UintMod))] :
                p \in {predict_next_frame(d, now_ns)}} : TRUE

\* n frames handled in phase with the same feedback, the first at first_ns
\* (each frame's result is a value before the next frame starts from it)
RECURSIVE DtCycles(_, _, _, _, _)
DtCycles(d, first_ns, n, da, dm) ==
    IF n = 0 THEN d
    ELSE CHOOSE r \in {DtCycles(v, first_ns + DtClockStep, n - 1, da, dm) :
                          v \in {DtCycle(d, first_ns, da, dm)}} : TRUE

\* The engines a run starts from: fresh from u_ft_display_timing_create;
\* after as many missed frames as take app_time_ns to app_time_max_ns; after
\* one missed frame less and one frame with a low margin; after as many
\* frames with a high margin as take app_time_ns to zero.
DtStarts ==
    LET d0 == u_ft_display_timing_create(DtPeriod)
        misses == (d0.app_time_max_ns - d0.app_time_ns) \div d0.adjust_missed_ns
        highs == d0.app_time_ns \div d0.adjust_non_miss_ns
        miss == U_TIME_HALF_MS_IN_NS
        a == d0.adjust_non_miss_ns
    IN  {d0,
         DtCycles(d0, 0, misses, miss, 0),
         DtCycles(DtCycles(d0, 0, misses - 1, miss, 0),
                  (misses - 1) * DtClockStep, 1, 0, -a),
         DtCycles(d0, 0, highs, 0, a)}

DtIdle ==
    /\ dt = u_ft_display_timing_create(DtPeriod)
    /\ dt_now = 0
    /\ dt_first = 0
    /\ dt_ret = DtNoRet
    /\ dt_prev = -1
    /\ dt_last = DtNoCall
    /\ dt_status = "ok"
    /\ dt_ndebug = FALSE
    /\ dt_infos = 0
    /\ dt_misuse = 0

\* The start of a run, in a build with or without asserts.
DtInit ==
    /\ dt \in DtStarts
    /\ dt_now = dt.next_frame_id * DtClockStep
    /\ dt_first = dt.next_frame_id
    /\ dt_ret = DtNoRet
    /\ dt_prev = -1
    /\ dt_last = DtNoCall
    /\ dt_status = "ok"
    /\ dt_ndebug \in BOOLEAN
    /\ dt_infos = 0
    /\ dt_misuse = 0

\* The start of a run whose caller makes every call in phase.
DtInitInPhase ==
    /\ dt \in DtStarts
    /\ dt_now = dt.next_frame_id * DtClockStep
    /\ dt_first = dt.next_frame_id
    /\ dt_ret = DtNoRet
    /\ dt_prev = -1
    /\ dt_last = DtNoCall
    /\ dt_status = "ok"
    /\ dt_ndebug \in BOOLEAN
    /\ dt_infos = 0
    /\ dt_misuse = MaxDtMisuse

\* The calls are made for frame ids that dt_predict has handed out; the
\* feedback is an actual present time around the desired one, an earliest
\* present time that is the desired one or far before it, and a margin
\* around the target.
DtNext ==
    \/ dt_predict
    \/ \E point \in TimingPoints, frame_id \in dt_first..(dt.next_frame_id - 1) :
           dt_mark_point(point, frame_id)
    \/ \E frame_id \in dt_first..(dt.next_frame_id - 1), da \in DtActualOffsets,
          dm \in DtMarginOffsets, early \in BOOLEAN :
           LET desired == dt.frames[get_frame(frame_id)].desired_present_time_ns
           IN  dt_info(frame_id, U64(desired + da + UintMod),
                       IF early THEN 0 ELSE desired,
                       U64(dt.margin_ns + dm + UintMod))

\* The engine after one frame that was predicted and then left alone by
\* its caller and NUM_FRAMES - 1 frames handled in phase: the next
\* dt_predict takes the ring slot of the frame that was left alone.
DtStale ==
    DtCycles(predict_next_frame(u_ft_display_timing_create(DtPeriod), 0),
             DtClockStep, NUM_FRAMES - 1, 0, 0)

\* The start of a run on that engine; the caller makes every call in phase.
DtInitStale ==
    /\ dt = DtStale
    /\ dt_now = dt.next_frame_id * DtClockStep
    /\ dt_first = dt.next_frame_id
    /\ dt_ret = DtNoRet
    /\ dt_prev = -1
    /\ dt_last = DtNoCall
    /\ dt_status = "ok"
    /\ dt_ndebug \in BOOLEAN
    /\ dt_infos = 0
    /\ dt_misuse = MaxDtMisuse

\* Calls for frame ids that were handed out before the start of the run.
DtStaleNext ==
    \/ \E point \in TimingPoints, frame_id \in 0..(dt_first - 1) :
           dt_mark_point(point, frame_id)
    \/ \E frame_id \in 0..(dt_first - 1), da \in DtActualOffsets,
          dm \in DtMarginOffsets :
           LET desired == dt.frames[get_frame(frame_id)].desired_present_time_ns
           IN  dt_info(frame_id, U64(desired + da + UintMod), desired,
                       U64(dt.margin_ns + dm + UintMod))

----------------------------------------------------------------------------
(* Fake (open-loop) timing engine: u_timing_fake.c 31-196.                 *)

\* The frame periods the engine is created with.
FtPeriod == 100

FtPeriods == {FtPeriod \div 2, FtPeriod}

\* The clock readings at creation.
FtCreatedAt == {0, 1}

\* How far the clock can have moved when ft_predict is called: up to
\* FtMaxStepMs milliseconds, or one time unit more.
FtMaxStepMs == 28

FtClockSteps == {U_TIME_1MS_IN_NS * m + e : m \in 0..FtMaxStepMs, e \in 0..1}

MaxFtPredicts == 2

\* mark_point and info calls made in a run.
MaxFtOthers == 1

\* get_percent_of_time 85-90
ft_get_percent_of_time(time_ns, fraction_percent) == (time_ns * fraction_percent) \div 100

\* u_ft_fake_create 168-196, the clock reading now_ns
u_ft_fake_create(estimated_frame_period_ns, now_ns) ==
    [frame_period_ns |-> estimated_frame_period_ns,
     frame_id_generator |-> 5,
     present_offset_ns |-> U_TIME_1MS_IN_NS * 4,
     app_time_ns |-> ft_get_percent_of_time(estimated_frame_period_ns, 20),
     last_display_time_ns |-> U64(now_ns + U_TIME_1MS_IN_NS * 50)]

\* The loop of predict_next_frame with >= for >.
RECURSIVE FtWalk_Strict(_, _, _)
FtWalk_Strict(predicted_display_time_ns, needed_at_ns, period) ==
    IF needed_at_ns >= predicted_display_time_ns
    THEN FtWalk_Strict(U64(predicted_display_time_ns + period), needed_at_ns, period)
    ELSE predicted_display_time_ns

\* predict_next_frame 78-80: the loop, needed_at_ns being now_ns + time_needed_ns
RECURSIVE FtWalk(_, _, _)
FtWalk(predicted_display_time_ns, needed_at_ns, period) ==
    IF needed_at_ns > predicted_display_time_ns
    THEN FtWalk(U64(predicted_display_time_ns + period), needed_at_ns, period)
    ELSE predicted_display_time_ns

\* predict_next_frame 71-83
ft_predict_next_frame(f, now_ns) ==
    LET time_needed_ns == U64(f.present_offset_ns + f.app_time_ns)
    IN  FtWalk(U64(f.last_display_time_ns + f.frame_period_ns),
               U64(now_ns + time_needed_ns), f.frame_period_ns)

FtNoRet ==
    [frame_id |-> -1, wake_up_time_ns |-> 0, desired_present_time_ns |-> 0,
     present_slop_ns |-> 0, predicted_display_time_ns |-> 0,
     predicted_display_period_ns |-> 0, min_display_period_ns |-> 0]

\* A call is made while the program runs.
FtCall == ft_status = "ok"

\* ft_predict 99-126, the clock reading now_ns
ft_predict(now_ns) ==
    /\ FtCall
    /\ ft_calls.predicts < MaxFtPredicts
    /\ LET predicted_display_time_ns == ft_predict_next_frame(ft, now_ns)
           desired_present_time_ns == U64(predicted_display_time_ns - ft.present_offset_ns + UintMod)
           wake_up_time_ns == U64(desired_present_time_ns - ft.app_time_ns + UintMod)
       IN  ft_ret' = [frame_id |-> ft.frame_id_generator,
                      wake_up_time_ns |-> wake_up_time_ns,
                      desired_present_time_ns |-> desired_present_time_ns,
                      present_slop_ns |-> U_TIME_HALF_MS_IN_NS,
                      predicted_display_time_ns |-> predicted_display_time_ns,
                      predicted_display_period_ns |-> ft.frame_period_ns,
                      min_display_period_ns |-> ft.frame_period_ns]
    /\ ft' = [ft EXCEPT !.frame_id_generator = @ + 1]
    /\ ft_now' = now_ns
    /\ ft_calls' = [ft_calls EXCEPT !.predicts = @ + 1, !.last = "ft_predict"]
    /\ UNCHANGED <<ft_created, ft_status, ft_ndebug>>
    /\ FtFrame

\* The values of enum u_timing_point and one that is none of them.
FtPoints == TimingPoints \cup {"invalid"}

\* ft_mark_point 128-138: the switch only checks the point.
ft_mark_point(point, frame_id, when_ns) ==
    /\ FtCall
    /\ ft_calls.others < MaxFtOthers
    /\ ft_status' = IF point \notin TimingPoints /\ ~ft_ndebug THEN "aborted" ELSE ft_status
    /\ ft_calls' = [ft_calls EXCEPT !.others = @ + 1, !.last = "ft_mark_point"]
    /\ UNCHANGED <<ft, ft_created, ft_now, ft_ret, ft_ndebug>>
    /\ FtFrame

\* ft_info 140-152: the body is empty.
ft_info(frame_id, desired_present_time_ns, actual_present_time_ns, earliest_present_time_ns, present_margin_ns) ==
    /\ FtCall
    /\ ft_calls.others < MaxFtOthers
    /\ ft_calls' = [ft_calls EXCEPT !.others = @ + 1, !.last = "ft_info"]
    /\ UNCHANGED <<ft, ft_created, ft_now, ft_ret, ft_status, ft_ndebug>>
    /\ FtFrame

\* The engine when it is not used.
FtIdle ==
    /\ ft = u_ft_fake_create(FtPeriod, 0)
    /\ ft_created = ft
    /\ ft_now = 0
    /\ ft_ret = FtNoRet
    /\ ft_calls = [predicts |-> 0, others |-> 0, last |-> "none"]
    /\ ft_status = "ok"
    /\ ft_ndebug = FALSE

\* The engine just created, in a debug or a release build.
FtInit ==
    /\ \E period \in FtPeriods, now_ns \in FtCreatedAt :
           /\ ft = u_ft_fake_create(period, now_ns)
           /\ ft_now = now_ns
    /\ ft_created = ft
    /\ ft_ret = FtNoRet
    /\ ft_calls = [predicts |-> 0, others |-> 0, last |-> "none"]
    /\ ft_status = "ok"
    /\ ft_ndebug \in BOOLEAN

\* The frame ids and times a caller passes to mark_point and info.
FtArgs == {0, ft.frame_id_generator - 1}

FtNext ==
    \/ \E step \in FtClockSteps : ft_predict(ft_now + step)
    \/ \E point \in FtPoints, frame_id \in FtArgs : ft_mark_point(point, frame_id, ft_now)
    \/ \E frame_id \in FtArgs, actual \in FtArgs :
           ft_info(frame_id, ft_ret.desired_present_time_ns, actual, actual, U_TIME_1MS_IN_NS)

----------------------------------------------------------------------------
(* One client's layer stack between its worker and the render loop.        *)
(* _update_layers (ht_hand_math.hpp 1144-1172) runs in the render loop     *)
(* after main_loop has released global_state_lock (1209, 1215) and reads   *)
(* ics->render_state.num_layers and ics->render_state.layers[j] in place,  *)
(* taking no lock and making no copy; render_state is volatile and the     *)
(* render loop never writes it.  Its writer is the client's worker, which  *)
(* copies a submitted stack into it; that code is outside the files at     *)
(* hand and is modelled from the design description (section 4.F: the      *)
(* worker copies the finished stack for the render loop).  Whatever lock   *)
(* the worker holds while it copies, the reader takes none.                *)

\* Layers in a stack, and stacks a client submits.
MaxLayers == 2

MaxSyncs == 2

\* The words of render_state: 0 is num_layers, j is layers[j - 1].
LayerWords == 0..MaxLayers

\* ics->render_state after the client connected: no layers; generation 0
\* is the memory before any stack was copied.
ipc_layer_render_state ==
    [num_layers |-> 0,
     gen |-> [w \in LayerWords |-> 0]]

\* The worker starts to copy a submitted stack of n layers.
layer_sync_begin(n) ==
    /\ layer_sync.todo = {}
    /\ layer_sync.gen < MaxSyncs
    /\ layer_sync' = [gen |-> layer_sync.gen + 1, n |-> n, todo |-> LayerWords]
    /\ UNCHANGED <<render_state, update_layers>>
    /\ LayerFrame

\* The worker copies one word of the stack; a struct assignment copies
\* the words in no fixed order.
layer_sync_copy(w) ==
    /\ w \in layer_sync.todo
    /\ render_state' =
           [num_layers |-> IF w = 0 THEN layer_sync.n ELSE render_state.num_layers,
            gen |-> [render_state.gen EXCEPT ![w] = layer_sync.gen]]
    /\ layer_sync' = [layer_sync EXCEPT !.todo = @ \ {w}]
    /\ UNCHANGED update_layers
    /\ LayerFrame

\* The render loop comes to this client in a tick (line 1148).
_update_layers_enter ==
    /\ update_layers.pc \in {"idle", "done"}
    /\ update_layers' = [pc |-> "test", j |-> 0, seen |-> {}]
    /\ UNCHANGED <<render_state, layer_sync>>
    /\ LayerFrame

\* j < ics->render_state.num_layers (line 1151), read anew in every
\* iteration.
_update_layers_test ==
    /\ update_layers.pc = "test"
    /\ update_layers' =
           [pc |-> IF update_layers.j < render_state.num_layers THEN "body" ELSE "done",
            j |-> update_layers.j,
            seen |-> update_layers.seen \cup {render_state.gen[0]}]
    /\ UNCHANGED <<render_state, layer_sync>>
    /\ LayerFrame

\* The body reads layers[j] (lines 1152-1169) and dispatches it; j++.
_update_layers_body ==
    /\ update_layers.pc = "body"
    /\ update_layers' =
           [pc |-> "test",
            j |-> update_layers.j + 1,
            seen |-> update_layers.seen \cup {render_state.gen[update_layers.j + 1]}]
    /\ UNCHANGED <<render_state, layer_sync>>
    /\ LayerFrame

LayerIdle ==
    /\ render_state = ipc_layer_render_state
    /\ layer_sync = [gen |-> 0, n |-> 0, todo |-> {}]
    /\ update_layers = [pc |-> "idle", j |-> 0, seen |-> {}]

LayerInit == LayerIdle

LayerNext ==
    \/ \E n \in 1..MaxLayers : layer_sync_begin(n)
    \/ \E w \in LayerWords : layer_sync_copy(w)
    \/ _update_layers_enter
    \/ _update_layers_test
    \/ _update_layers_body

----------------------------------------------------------------------------
(* global_state_lock and the threads that use the client table.            *)
(* The render thread runs main_loop: _update_layers fills z_data from the  *)
(* client table and s->active_client_index (ht_hand_math.hpp 1120-1138)    *)
(* after main_loop has released the lock (1209, 1215); check_epoll calls   *)
(* handle_listen (890-953), which takes the lock at 905 and gives it back  *)
(* at 921, 933 or 952.  A client's worker thread calls update_server_state *)
(* (1323-1405), which holds the lock from 1327 to 1340 or 1403.  The       *)
(* worker's requests and its end (ipc_server_client_thread) are outside    *)
(* the files at hand and are modelled from the design description: a       *)
(* request changes the client's state and calls update_server_state; at    *)
(* its end the worker gives the slot back (server_thread_index = -1,       *)
(* state STOPPING), then calls update_server_state and returns.            *)

\* Requests, thread ends and connections in a run.
MaxLockCalls == 4

\* Holders of global_state_lock that are not a client's worker: nobody,
\* and the render thread.
LockNone == -1

LockRender == -2

\* The indices at which a call of update_server_state reads the client
\* table: s->active_client_index in the early-out test (1333-1338) when it
\* is not negative; past the early-out every slot in the fallback loop
\* (1357-1365), and s->active_client_index again at 1369-1372, where
\* ics->client_state.session_overlay is read before the index is tested.
update_server_state_reads(s) ==
    IF /\ s.active_client_index >= 0
       /\ s.threads[s.active_client_index].client_state.session_active
       /\ s.active_client_index = s.last_active_client_index
    THEN {s.active_client_index}
    ELSE Clients \cup {s.active_client_index}

\* No thread runs for the slot.  reads: the indices at which the thread's
\* last call of update_server_state read the client table.
WorkerNone == [pc |-> "none", r |-> ServerState, leaving |-> FALSE, reads |-> {}]

\* The lock is free.
LockFree == global_state_lock = LockNone

\* A request of client i (session begin or end): the handler writes
\* session_active and enters update_server_state, which takes the lock
\* (1327) and works out the new state.
worker_request(i, oob) ==
    /\ srv_calls < MaxLockCalls
    /\ worker[i].pc = "run"
    /\ LockFree
    /\ global_state_lock' = i
    /\ LET s == [ServerState EXCEPT !.threads[i].client_state.session_active = ~@]
       IN  /\ threads' = s.threads
           /\ worker' = [worker EXCEPT ![i] = [pc |-> "update",
                                               r |-> update_server_state(s, srv_now, oob),
                                               leaving |-> FALSE,
                                               reads |-> update_server_state_reads(s)]]
    /\ UNCHANGED <<active_client_index, last_active_client_index, rloop>>
    /\ srv_calls' = srv_calls + 1
    /\ LockFrame

\* update_server_state, lines 1369-1384: s->active_client_index is written.
update_server_state_set_active(i) ==
    /\ worker[i].pc = "update"
    /\ global_state_lock = i
    /\ active_client_index' = worker[i].r.active_client_index
    /\ worker' = [worker EXCEPT ![i].pc = "events"]
    /\ UNCHANGED <<threads, last_active_client_index, global_state_lock, rloop>>
    /\ UNCHANGED srv_calls
    /\ LockFrame

\* update_server_state, lines 1386-1404: the events are sent, the last
\* active index is written and the lock is given back; a worker that was
\* on its way out returns.
update_server_state_unlock(i) ==
    /\ worker[i].pc = "events"
    /\ global_state_lock = i
    /\ threads' = worker[i].r.threads
    /\ last_active_client_index' = worker[i].r.last_active_client_index
    /\ global_state_lock' = LockNone
    /\ worker' = [worker EXCEPT ![i] = [pc |-> IF worker[i].leaving THEN "exited" ELSE "run",
                                        r |-> worker[i].r,
                                        leaving |-> FALSE,
                                        reads |-> worker[i].reads]]
    /\ UNCHANGED <<active_client_index, rloop>>
    /\ UNCHANGED srv_calls
    /\ LockFrame

\* The worker's end, first part: the slot is given back.
worker_exit_begin(i) ==
    /\ srv_calls < MaxLockCalls
    /\ worker[i].pc = "run"
    /\ LockFree
    /\ threads' = [threads EXCEPT ![i].state = IPC_THREAD_STOPPING,
                                  ![i].server_thread_index = -1,
                                  ![i].client_state = ipc_app_state]
    /\ worker' = [worker EXCEPT ![i].pc = "exiting"]
    /\ UNCHANGED <<active_client_index, last_active_client_index, global_state_lock, rloop>>
    /\ srv_calls' = srv_calls + 1
    /\ LockFrame

\* The worker's end, second part: update_server_state, which needs the lock.
worker_exit_update(i, oob) ==
    /\ worker[i].pc = "exiting"
    /\ LockFree
    /\ global_state_lock' = i
    /\ worker' = [worker EXCEPT ![i] = [pc |-> "update",
                                        r |-> update_server_state(ServerState, srv_now, oob),
                                        leaving |-> TRUE,
                                        reads |-> update_server_state_reads(ServerState)]]
    /\ UNCHANGED <<threads, active_client_index, last_active_client_index, rloop>>
    /\ UNCHANGED srv_calls
    /\ LockFrame

\* _update_layers, first loop (1120-1131): the client table is read.
_update_layers_fill ==
    /\ rloop.pc = "loop"
    /\ rloop' = [pc |-> "test", slot |-> -1, torn |-> FALSE]
    /\ UNCHANGED <<threads, active_client_index, last_active_client_index,
                   global_state_lock, worker>>
    /\ UNCHANGED srv_calls
    /\ LockFrame

\* _update_layers, line 1135: if (s->active_client_index >= 0)
_update_layers_primary_test ==
    /\ rloop.pc = "test"
    /\ rloop' = [rloop EXCEPT !.pc = IF active_client_index >= 0 THEN "set" ELSE "loop"]
    /\ UNCHANGED <<threads, active_client_index, last_active_client_index,
                   global_state_lock, worker>>
    /\ UNCHANGED srv_calls
    /\ LockFrame

\* _update_layers, lines 1136-1137: s->active_client_index is read again
\* as the index into z_data; torn when it is no longer what line 1135 saw.
_update_layers_primary_set ==
    /\ rloop.pc = "set"
    /\ rloop' = [rloop EXCEPT !.pc = "loop", !.torn = active_client_index < 0]
    /\ UNCHANGED <<threads, active_client_index, last_active_client_index,
                   global_state_lock, worker>>
    /\ UNCHANGED srv_calls
    /\ LockFrame

\* handle_listen up to line 943: the lock is taken, the first free slot is
\* looked for; a slot whose thread is STOPPING is joined with the lock held.
handle_listen_lock ==
    /\ srv_calls < MaxLockCalls
    /\ rloop.pc = "loop"
    /\ LockFree
    /\ LET l == handle_listen(TRUE)
           free == {i \in Clients : threads[i].server_thread_index < 0}
       IN  IF free # {} /\ threads[SetMin(free)].state = IPC_THREAD_STOPPING
           THEN /\ global_state_lock' = LockRender
                /\ rloop' = [rloop EXCEPT !.pc = "join", !.slot = SetMin(free)]
                /\ UNCHANGED <<threads, worker>>
           ELSE /\ threads' = l.threads
                /\ worker' = [i \in Clients |->
                                 IF l.threads[i] # threads[i]
                                 THEN [WorkerNone EXCEPT !.pc = "run"]
                                 ELSE worker[i]]
                /\ UNCHANGED <<global_state_lock, rloop>>
    /\ UNCHANGED <<active_client_index, last_active_client_index>>
    /\ srv_calls' = srv_calls + 1
    /\ LockFrame

\* handle_listen, lines 940-952: os_thread_join returns once the thread of
\* the slot has returned; the new thread is started and the lock given back.
handle_listen_joined ==
    /\ rloop.pc = "join"
    /\ worker[rloop.slot].pc = "exited"
    /\ threads' = [threads EXCEPT ![rloop.slot].state = IPC_THREAD_STARTING,
                                  ![rloop.slot].server_thread_index = rloop.slot,
                                  ![rloop.slot].last_overlay_event = "none"]
    /\ worker' = [worker EXCEPT ![rloop.slot] = [WorkerNone EXCEPT !.pc = "run"]]
    /\ global_state_lock' = LockNone
    /\ rloop' = [rloop EXCEPT !.pc = "loop", !.slot = -1]
    /\ UNCHANGED <<active_client_index, last_active_client_index>>
    /\ UNCHANGED srv_calls
    /\ LockFrame

LockIdle ==
    /\ global_state_lock = LockNone
    /\ worker = [i \in Clients |-> WorkerNone]
    /\ rloop = [pc |-> "loop", slot |-> -1, torn |-> FALSE]

LockInit == LockIdle

LockNext ==
    \/ \E i \in Clients, oob \in OobStates : worker_request(i, oob)
    \/ \E i \in Clients : update_server_state_set_active(i)
    \/ \E i \in Clients : update_server_state_unlock(i)
    \/ \E i \in Clients : worker_exit_begin(i)
    \/ \E i \in Clients, oob \in OobStates : worker_exit_update(i, oob)
    \/ _update_layers_fill
    \/ _update_layers_primary_test
    \/ _update_layers_primary_set
    \/ handle_listen_lock
    \/ handle_listen_joined

----------------------------------------------------------------------------
(* Specifications *)

InitRT == RtInit /\ SessIdle /\ MultiIdle /\ SrvIdle /\ DtIdle /\ FtIdle /\ LayerIdle /\ LockIdle

NextRT == RtNext

SpecRT == InitRT /\ [][NextRT]_vars

InitSess == SessInit /\ RtIdle /\ MultiIdle /\ SrvIdle /\ DtIdle /\ FtIdle /\ LayerIdle /\ LockIdle

NextSess == SessNext

SpecSess == InitSess /\ [][NextSess]_vars

\* The session used by a client that makes its calls from one thread.
NextState == SessCalls(1)

SpecState == InitSess /\ [][NextState]_vars

InitMulti == MultiInit /\ RtIdle /\ SessIdle /\ SrvIdle /\ DtIdle /\ FtIdle /\ LayerIdle /\ LockIdle

NextMulti == MultiNext

SpecMulti == InitMulti /\ [][NextMulti]_vars

InitServer == init_server_state /\ RtIdle /\ SessIdle /\ MultiIdle /\ DtIdle /\ FtIdle /\ LayerIdle /\ LockIdle

NextServer == SrvNext

SpecServer == InitServer /\ [][NextServer]_vars

\* The server with clients that only begin and end sessions.
NextLoop == LoopNext

SpecLoop == InitServer /\ [][NextLoop]_vars

InitDT == DtInit /\ RtIdle /\ SessIdle /\ MultiIdle /\ SrvIdle /\ FtIdle /\ LayerIdle /\ LockIdle

NextDT == DtNext

SpecDT == InitDT /\ [][NextDT]_vars

InitDTInPhase == DtInitInPhase /\ RtIdle /\ SessIdle /\ MultiIdle /\ SrvIdle /\ FtIdle /\ LayerIdle /\ LockIdle

SpecDTInPhase == InitDTInPhase /\ [][NextDT]_vars

InitDTStale ==
    /\ DtInitStale
    /\ RtIdle /\ SessIdle /\ MultiIdle /\ SrvIdle /\ FtIdle /\ LayerIdle /\ LockIdle

NextDTStale == DtNext \/ DtStaleNext

SpecDTStale == InitDTStale /\ [][NextDTStale]_vars

InitFake == FtInit /\ RtIdle /\ SessIdle /\ MultiIdle /\ SrvIdle /\ DtIdle /\ LayerIdle /\ LockIdle

InitLayers ==
    LayerInit /\ RtIdle /\ SessIdle /\ MultiIdle /\ SrvIdle /\ DtIdle /\ FtIdle /\ LockIdle

NextLayers == LayerNext

SpecLayers == InitLayers /\ [][NextLayers]_vars

NextFake == FtNext

InitLock ==
    /\ init_server_state /\ LockInit
    /\ RtIdle /\ SessIdle /\ MultiIdle /\ DtIdle /\ FtIdle /\ LayerIdle

NextLock == LockNext

SpecLock == InitLock /\ [][NextLock]_vars

SpecFake == InitFake /\ [][NextFake]_vars

----------------------------------------------------------------------------
(* C1: for one helper, every predicted display time returned by            *)
(* u_rt_helper_predict is greater than or equal to the one returned by the *)
(* previous predict, whatever samples arrive in between.                   *)
C1_PredictMonotonic ==
    rt_prev # -1 => rt_ret.predicted_display_time >= rt_prev

\* Two predicts have returned, with a sample in between that lies before the
\* first returned time.
C1_Witness ==
    /\ rt_prev # -1
    /\ rt_ret.frame_id >= 2
    /\ urth.last_input < rt_prev

(* C2: the number of outstanding wait_frame calls of a session            *)
(* (active_wait_frames) stays within 0..2 under every interleaving of      *)
(* wait_frame and begin_frame calls.                                       *)
C2_WaitsWithinTwo ==
    sess.active_wait_frames \in 0..2

(* C3: the begin/wait semaphore never holds more than its capacity of 1    *)
(* and every release done by begin_frame is matched by an acquire done by  *)
(* a wait_frame.                                                           *)
C3_SemBalanced ==
    /\ sem <= SemInitial
    /\ sem_posts <= sem_waits

C5_OneFocusedPrimary ==
    LET focused == {i \in Clients : threads[i].client_state.session_focused}
        primaries == {i \in Clients :
                         /\ threads[i].server_thread_index >= 0
                         /\ ~threads[i].client_state.session_overlay
                         /\ threads[i].client_state.session_active}
    IN  /\ Cardinality(focused) <= 1
        /\ primaries # {} =>
               /\ focused = {active_client_index}
               /\ active_client_index \in primaries
               /\ \A i \in Clients \ {active_client_index} :
                      (/\ threads[i].client_state.session_overlay
                       /\ threads[i].client_state.session_active)
                          => /\ threads[i].client_state.session_visible
                             /\ ~threads[i].client_state.session_focused

\* The session-active overlays in ascending z order, equal z orders in
\* client-index order.
RECURSIVE StableOverlays(_)
StableOverlays(S) ==
    IF S = {} THEN <<>>
    ELSE LET first == CHOOSE i \in S : \A j \in S \ {i} :
                          \/ threads[i].client_state.z_order < threads[j].client_state.z_order
                          \/ /\ threads[i].client_state.z_order = threads[j].client_state.z_order
                             /\ i < j
         IN  <<first>> \o StableOverlays(S \ {first})

(* C6: in every render tick the clients dispatched are the active primary  *)
(* (if any) first, then the session-active overlays in ascending z order,  *)
(* overlays of equal z order in client-index order, each client once.      *)
C6_StableRenderOrder ==
    render.done =>
        render.order =
            (IF active_client_index >= 0 THEN <<active_client_index>> ELSE <<>>)
            \o StableOverlays({i \in Clients \ {active_client_index} :
                                   /\ threads[i].client_state.session_overlay
                                   /\ threads[i].client_state.session_active})

(* C7: in the display-timing engine the predicted display time returned   *)
(* for a frame id is greater than or equal to the one returned for the     *)
(* frame id before it, whatever feedback dt_info was given in between.     *)
C7_DtPredictMonotonic ==
    dt_prev # -1 => dt_ret.predicted_display_time_ns >= dt_prev

(* C8: a frame record created by dt_predict moves through PREDICTED, WOKE, *)
(* BEGAN, SUBMITTED, INFO one step at a time: until its ring slot is taken *)
(* by a later frame, no call moves it back or makes it skip a phase.       *)
C8_PhasesInOrder ==
    [][\A id \in dt_first..(dt.next_frame_id - 1) :
           dt'.frames[get_frame(id)].frame_id = dt.frames[get_frame(id)].frame_id
               => \/ dt'.frames[get_frame(id)].state = dt.frames[get_frame(id)].state
                  \/ dt'.frames[get_frame(id)].state = dt.frames[get_frame(id)].state + 1]_vars

\* The frame the last dt_info call was for.
DtInfoFrame == dt.frames[get_frame(dt_last.frame_id)]

\* How much later than desired the actual present time of that call is.
DtLate == I64(dt_last.actual_present_time_ns) - I64(DtInfoFrame.desired_present_time_ns)

\* How far above the target the present margin of that call is.
DtMarginAbove == I64(dt_last.present_margin_ns) - I64(dt.margin_ns)

DtAbs(x) == IF x < 0 THEN -x ELSE x

\* app_time_ns after a missed frame: one adjust_missed_ns more (uint64_t),
\* at most app_time_max_ns.
DtAfterMiss ==
    LET grown == U64(dt_last.app_time_before + dt.adjust_missed_ns)
    IN  IF grown > dt.app_time_max_ns THEN dt.app_time_max_ns ELSE grown

C11_EvictsOldest ==
    \A i \in Clients :
        LET cs == threads[i]
            free == {k \in EventSlots : ~cs.queued_events[k].pending}
            slot == find_event_slot(cs)
        IN  IF free # {}
            THEN slot = SetMin(free)
            ELSE \A k \in EventSlots :
                     cs.queued_events[slot].timestamp <= cs.queued_events[k].timestamp

(* C20: update_server_state, run for a request that names client id as    *)
(* the primary, keeps id as the active primary when that client is not an  *)
(* overlay and is session-active; otherwise it selects the connected,      *)
(* session-active, non-overlay client of the lowest index; otherwise none  *)
(* (-1).                                                                   *)
C20_ActivePrimaryChoice ==
    \A id \in Clients, oob \in OobStates :
        LET s == [ServerState EXCEPT !.active_client_index = id]
            candidates == {i \in Clients :
                               /\ threads[i].server_thread_index >= 0
                               /\ threads[i].client_state.session_active
                               /\ ~threads[i].client_state.session_overlay}
            expected ==
                IF /\ threads[id].client_state.session_active
                   /\ ~threads[id].client_state.session_overlay
                THEN id
                ELSE IF candidates # {} THEN SetMin(candidates) ELSE -1
        IN  update_server_state(s, srv_now, oob).active_client_index = expected

\* The last n state-change events of the session.
LastEvents(n) ==
    IF Len(sess.events) < n THEN <<>>
    ELSE SubSeq(sess.events, Len(sess.events) - n + 1, Len(sess.events))

(* C12: the list of state-change events is the history of the    *)
(* session's state: it begins with IDLE, READY, its last entry is the      *)
(* current state, and every entry is a change (differs from the entry      *)
(* before it).                                                             *)
C12_EventsAreHistory ==
    /\ Len(sess.events) >= 2
    /\ sess.events[1] = XR_SESSION_STATE_IDLE
    /\ sess.events[2] = XR_SESSION_STATE_READY
    /\ sess.events[Len(sess.events)] = sess.state
    /\ \A k \in 2..Len(sess.events) : sess.events[k] # sess.events[k - 1]

(* C13: a poll first takes over what the drained compositor events report, *)
(* then moves a SYNCHRONIZED session to VISIBLE if the compositor reports   *)
(* it visible, then a VISIBLE session to FOCUSED if it reports it focused   *)
(* (both in one poll, in that order, one event each); a session in any     *)
(* other case is not moved and gets no event.                              *)
C13_PollMoves ==
    [][\A t \in Threads, e, v, f \in BOOLEAN :
           oxr_session_poll(t, e, v, f) =>
               LET vis == IF e THEN v ELSE sess.compositor_visible
                   foc == IF e THEN f ELSE sess.compositor_focused
               IN  /\ sess'.compositor_visible = vis
                   /\ sess'.compositor_focused = foc
                   /\ IF sess.state = XR_SESSION_STATE_SYNCHRONIZED /\ vis
                      THEN IF foc
                           THEN /\ sess'.state = XR_SESSION_STATE_FOCUSED
                                /\ sess'.events = sess.events \o
                                       <<XR_SESSION_STATE_VISIBLE, XR_SESSION_STATE_FOCUSED>>
                           ELSE /\ sess'.state = XR_SESSION_STATE_VISIBLE
                                /\ sess'.events = sess.events \o <<XR_SESSION_STATE_VISIBLE>>
                      ELSE IF sess.state = XR_SESSION_STATE_VISIBLE /\ foc
                      THEN /\ sess'.state = XR_SESSION_STATE_FOCUSED
                           /\ sess'.events = sess.events \o <<XR_SESSION_STATE_FOCUSED>>
                      ELSE /\ sess'.state = sess.state
                           /\ sess'.events = sess.events]_vars

\* A SYNCHRONIZED session was polled up to FOCUSED.
C13_Witness ==
    /\ sess.state = XR_SESSION_STATE_FOCUSED
    /\ sess.compositor_visible
    /\ sess.compositor_focused
    /\ LastEvents(3) = <<XR_SESSION_STATE_SYNCHRONIZED, XR_SESSION_STATE_VISIBLE,
                         XR_SESSION_STATE_FOCUSED>>

(* C14: once the session has processed compositor events that report it    *)
(* is no longer focused, it is not FOCUSED any more (it moved to VISIBLE).  *)
C14_UnfocusedLeavesFocused ==
    sess.state = XR_SESSION_STATE_FOCUSED => sess.compositor_focused

(* C15: a running session that has a frame begun (begin_frame succeeded)   *)
(* is not in READY any more: the first successful begin_frame moved it to   *)
(* SYNCHRONIZED.                                                           *)
C15_BeginFrameSynchronizes ==
    (sess.has_begun /\ sess.begun > 0) => sess.state # XR_SESSION_STATE_READY

(* C16: request_exit on a running session succeeds and leaves the session  *)
(* in STOPPING with STOPPING as the last event enqueued, still running; on  *)
(* a session that is not running it fails with SESSION_NOT_RUNNING and      *)
(* changes nothing; a running session stops running only in end_session.    *)
C16_RequestExit ==
    [][/\ \A t \in Threads :
              oxr_session_request_exit(t) =>
                  IF sess.has_begun
                  THEN /\ thr'[t].ret = XR_SUCCESS
                       /\ sess'.state = XR_SESSION_STATE_STOPPING
                       /\ Len(sess'.events) > Len(sess.events)
                       /\ sess'.events[Len(sess'.events)] = XR_SESSION_STATE_STOPPING
                       /\ sess'.has_begun
                  ELSE /\ thr'[t].ret = XR_ERROR_SESSION_NOT_RUNNING
                       /\ sess' = sess
       /\ (sess.has_begun /\ ~sess'.has_begun)
              => \E t \in Threads, x \in XrtResults : oxr_session_end(t, x)]_vars

\* request_exit was called on a FOCUSED session.
C16_Witness ==
    /\ sess.has_begun
    /\ sess.state = XR_SESSION_STATE_STOPPING
    /\ LastEvents(4) = <<XR_SESSION_STATE_FOCUSED, XR_SESSION_STATE_VISIBLE,
                         XR_SESSION_STATE_SYNCHRONIZED, XR_SESSION_STATE_STOPPING>>

(* C17: end_session succeeds only on a running session in STOPPING; on a   *)
(* session not running it fails with SESSION_NOT_RUNNING, on a running one  *)
(* not in STOPPING with SESSION_NOT_STOPPING, and changes nothing; on       *)
(* success the session stops running and gets the events IDLE then EXITING  *)
(* if request_exit was called before, IDLE then READY if not.               *)
C17_EndSession ==
    [][\A t \in Threads, x \in XrtResults :
           oxr_session_end(t, x) =>
               LET final == IF sess.exiting THEN XR_SESSION_STATE_EXITING
                            ELSE XR_SESSION_STATE_READY
               IN  /\ thr'[t].ret = XR_SUCCESS
                          => /\ sess.has_begun
                             /\ sess.state = XR_SESSION_STATE_STOPPING
                             /\ ~sess'.has_begun
                             /\ sess'.state = final
                             /\ sess'.events = sess.events \o <<XR_SESSION_STATE_IDLE, final>>
                   /\ ~sess.has_begun
                          => /\ thr'[t].ret = XR_ERROR_SESSION_NOT_RUNNING
                             /\ sess' = sess
                   /\ (sess.has_begun /\ sess.state # XR_SESSION_STATE_STOPPING)
                          => /\ thr'[t].ret = XR_ERROR_SESSION_NOT_STOPPING
                             /\ sess' = sess]_vars

\* end_session succeeded after request_exit.
C17_Witness ==
    /\ ~sess.has_begun
    /\ sess.exiting
    /\ sess.state = XR_SESSION_STATE_EXITING
    /\ LastEvents(3) = <<XR_SESSION_STATE_STOPPING, XR_SESSION_STATE_IDLE,
                         XR_SESSION_STATE_EXITING>>

(* C18: EXITING is terminal: an EXITING event is the last state-change     *)
(* event of the session and the session stays in EXITING.                   *)
C18_ExitingIsTerminal ==
    \A k \in 1..Len(sess.events) :
        sess.events[k] = XR_SESSION_STATE_EXITING
            => /\ k = Len(sess.events)
               /\ sess.state = XR_SESSION_STATE_EXITING

(* C19: after a compositor call of the session failed with an IPC failure, *)
(* an EXITING event is enqueued only after a LOSS_PENDING event that was    *)
(* enqueued after the failure.                                             *)
C19_LossPendingBeforeExiting ==
    sess.ipc_failure_at >= 0 =>
        \A k \in (sess.ipc_failure_at + 1)..Len(sess.events) :
            sess.events[k] = XR_SESSION_STATE_EXITING
                => \E j \in (sess.ipc_failure_at + 1)..(k - 1) :
                       sess.events[j] = XR_SESSION_STATE_LOSS_PENDING

(* C21: an overlay client that is connected and active while an active     *)
(* primary exists has been told that it is visible: the last overlay       *)
(* visibility event enqueued for it carries visible=true, whatever the     *)
(* order in which the primary and the overlay connected and became active; *)
(* and while there is no active primary the last such event, if any, does  *)
(* not say visible=true.                                                   *)
C21_OverlayToldVisible ==
    \A i \in Clients :
        (/\ threads[i].server_thread_index >= 0
         /\ threads[i].client_state.session_overlay
         /\ threads[i].client_state.session_active)
        => /\ active_client_index >= 0 => threads[i].last_overlay_event = "visible"
           /\ active_client_index < 0 => threads[i].last_overlay_event # "visible"

(* C22: a wait_frame call made when an earlier wait_frame has taken the     *)
(* semaphore and no begin_frame has completed does not wait: it returns    *)
(* the call-order error.  So no thread is ever held at the semaphore while *)
(* no begin_frame has ever released it and no other call is in progress.   *)
C22_SecondWaitCallOrder ==
    \A t \in Threads :
        ~(/\ thr[t].pc = "wf_sem"
          /\ sem = 0
          /\ sem_waits >= 1
          /\ sem_posts = 0
          /\ \A u \in Threads \ {t} : thr[u].pc = "idle")

(* C23: begin_frame on a running session whose count of outstanding        *)
(* wait_frame calls is zero returns the call-order error at once and       *)
(* changes nothing: frame_started, the waited and begun frame ids, the     *)
(* count, the semaphore and the list of compositor calls are as before.    *)
C23_BeginFrameWithoutWait ==
    [][\A t \in Threads :
           (frame_begin_enter(t) /\ sess.has_begun /\ sess.active_wait_frames = 0)
               => /\ thr'[t].pc = "idle"
                  /\ thr'[t].ret = XR_ERROR_CALL_ORDER_INVALID
                  /\ sess' = sess
                  /\ sem' = sem
                  /\ sem_waits' = sem_waits
                  /\ sem_posts' = sem_posts
                  /\ comp_frames' = comp_frames]_vars

\* begin_frame has returned the call-order error on a running session
\* without an outstanding wait_frame.
C23_Witness ==
    \E t \in Threads :
        /\ thr[t].pc = "idle"
        /\ thr[t].call = "oxr_session_frame_begin"
        /\ thr[t].ret = XR_ERROR_CALL_ORDER_INVALID
        /\ sess.has_begun
        /\ sess.active_wait_frames = 0
        /\ ~sess.frame_started

(* C24: a begin_frame that passed the check of the counter, with the       *)
(* compositor calls succeeding.  When a frame was begun and not ended      *)
(* (frame_started) and two wait_frame calls are outstanding, the begun     *)
(* frame is discarded on the compositor (one xrt_comp_discard_frame call   *)
(* with its id), the count of outstanding waits drops by one and the call  *)
(* returns FRAME_DISCARDED; when no frame was begun the call returns OK,    *)
(* discards nothing and leaves the count; in both cases the waited frame   *)
(* is then begun on the compositor and becomes the begun frame.  With a    *)
(* frame begun and a count other than two the call is rejected with the    *)
(* call-order error and changes nothing.                                   *)
C24_BeginFrameDiscards ==
    [][\A t \in Threads :
           /\ frame_begin_started(t, XRT_SUCCESS) =>
                  IF sess.frame_started
                  THEN IF sess.active_wait_frames = 2
                       THEN /\ thr'[t].pc = "bf_comp"
                            /\ thr'[t].ret = XR_FRAME_DISCARDED
                            /\ sess'.xc_frame_calls =
                                   Append(sess.xc_frame_calls,
                                          [call |-> "discard_frame", frame_id |-> sess.begun])
                            /\ sess'.active_wait_frames = 1
                            /\ sess'.waited = sess.waited
                       ELSE /\ thr'[t].pc = "idle"
                            /\ thr'[t].ret = XR_ERROR_CALL_ORDER_INVALID
                            /\ sess' = sess
                  ELSE /\ thr'[t].pc = "bf_comp"
                       /\ thr'[t].ret = XR_SUCCESS
                       /\ sess' = [sess EXCEPT !.frame_started = TRUE]
           /\ frame_begin_comp(t, XRT_SUCCESS) =>
                  /\ thr'[t].pc = "idle"
                  /\ thr'[t].ret = thr[t].ret
                  /\ thr[t].ret \in {XR_SUCCESS, XR_FRAME_DISCARDED}
                  /\ sess'.begun = sess.waited
                  /\ sess'.xc_frame_calls =
                         Append(sess.xc_frame_calls,
                                [call |-> "begin_frame", frame_id |-> sess.waited])
                  /\ sess'.active_wait_frames = sess.active_wait_frames
                  /\ sess'.frame_started]_vars

\* begin_frame has returned FRAME_DISCARDED: frame 1 was begun, frame 2 was
\* waited for, 1 was discarded and 2 is the begun frame.
C24_Witness ==
    \E t \in Threads :
        /\ thr[t].pc = "idle"
        /\ thr[t].call = "oxr_session_frame_begin"
        /\ thr[t].ret = XR_FRAME_DISCARDED
        /\ sess.begun = 2
        /\ sess.active_wait_frames = 1
        /\ Len(sess.xc_frame_calls) = 3
        /\ sess.xc_frame_calls[2] = [call |-> "discard_frame", frame_id |-> 1]
        /\ sess.xc_frame_calls[3] = [call |-> "begin_frame", frame_id |-> 2]

(* C25: when the compositor's wait_frame gives a predicted display time    *)
(* that is not positive, or one whose conversion to client time is not     *)
(* positive, wait_frame returns the runtime failure and the frame is       *)
(* dropped: the session's waited frame id is as before the call and the    *)
(* call is no longer counted as an outstanding wait.                       *)
C25_BadTimeDiscardsFrame ==
    [][\A t \in Threads, time_ok, ts_ok \in BOOLEAN :
           (frame_wait_comp(t, XRT_SUCCESS, time_ok, ts_ok) /\ ~(time_ok /\ ts_ok))
               => /\ thr'[t].pc = "idle"
                  /\ thr'[t].ret = XR_ERROR_RUNTIME_FAILURE
                  /\ sess'.waited = sess.waited
                  /\ sess'.active_wait_frames = sess.active_wait_frames - 1]_vars

(* C26: when the layer stack of a client has an invalid layer (unknown     *)
(* swapchain or device) in a render tick, the layers of every other client *)
(* of the tick's stack are still dispatched in that tick, and the render   *)
(* loop goes on to the next tick.                                          *)
C26_OnlyOffenderDropped ==
    render.done =>
        \A i \in Clients :
            (FillZData[i].index >= 0 /\ i \notin render.bad)
                => \E k \in 1..Len(render.order) : render.order[k] = i

\* The smallest k >= 1 for which last + k * period is not earlier than
\* needed_at_ns.
FtSmallestK(last, period, needed_at_ns) ==
    CHOOSE k \in 1..(needed_at_ns \div period + 1) :
        /\ last + k * period >= needed_at_ns
        /\ \A j \in 1..(k - 1) : last + j * period < needed_at_ns

(* C27: every ft_predict returns predicted_display = last_display +         *)
(* k * period for the smallest k >= 1 that makes it not earlier than       *)
(* now + present_offset + app_time, desired_present = predicted_display -  *)
(* present_offset and wake_up = desired_present - app_time, with the       *)
(* parameters the engine was created with: no call, mark_point and info    *)
(* included, changes them.                                                 *)
C27_FakePredictStateless ==
    ft_ret # FtNoRet =>
        LET c == ft_created
            k == FtSmallestK(c.last_display_time_ns, c.frame_period_ns,
                             ft_now + c.present_offset_ns + c.app_time_ns)
            predicted_display == c.last_display_time_ns + k * c.frame_period_ns
        IN  /\ ft_ret.predicted_display_time_ns = predicted_display
            /\ ft_ret.desired_present_time_ns = predicted_display - c.present_offset_ns
            /\ ft_ret.wake_up_time_ns = predicted_display - c.present_offset_ns - c.app_time_ns
            /\ [ft EXCEPT !.frame_id_generator = c.frame_id_generator] = c

\* A prediction made after mark_point or info calls and an earlier
\* prediction, two periods after last_display, which is exactly the time
\* needed.
C27_Witness ==
    /\ ft_calls.predicts >= 2
    /\ ft_calls.others >= 1
    /\ ft_ret.predicted_display_time_ns
           = ft_created.last_display_time_ns + 2 * ft_created.frame_period_ns
    /\ ft_ret.predicted_display_time_ns
           = ft_now + ft_created.present_offset_ns + ft_created.app_time_ns

(* C28: a mark_point call for a frame record that is not in the phase just *)
(* before the one marked, and an info call for a record that is not        *)
(* submitted, is not applied: a debug build stops at the assert, a release *)
(* build leaves the frame records as they were.                            *)
C28_OutOfPhaseNotApplied ==
    [][\A frame_id \in dt_first..(dt.next_frame_id - 1) :
           LET f == dt.frames[get_frame(frame_id)]
               refused == IF dt_ndebug
                          THEN dt'.frames = dt.frames /\ dt'.app_time_ns = dt.app_time_ns
                          ELSE dt_status' = "aborted" /\ dt' = dt
           IN  /\ \A point \in TimingPoints :
                      (dt_mark_point(point, frame_id) /\ f.state # PointFrom(point))
                          => refused
               /\ (/\ f.state # STATE_SUBMITTED
                   /\ \E da \in DtActualOffsets, dm \in DtMarginOffsets, early \in BOOLEAN :
                          dt_info(frame_id, U64(f.desired_present_time_ns + da + UintMod),
                                  IF early THEN 0 ELSE f.desired_present_time_ns,
                                  U64(dt.margin_ns + dm + UintMod)))
                      => refused]_vars

(* C29: when the poll at the end of a render tick reports an epoll error   *)
(* or data on stdin, the server stops running in that tick; and once it    *)
(* is not running it never runs again and the render loop makes no further *)
(* round (no further xrt_comp_wait_frame).  A finished round is seen in    *)
(* render.done and the step counter.                                       *)
C29_ShutdownStopsLoop ==
    [][/\ (/\ render'.done
           /\ srv_calls' = srv_calls + 1
           /\ EpollShutdown(render'.epoll)) => ~running'
       /\ ~running =>
              /\ ~running'
              /\ ~(render'.done /\ srv_calls' = srv_calls + 1)]_vars

\* A tick that dispatched the layers of a client, accepted a connection
\* and then saw data on stdin: the server has stopped.
C29_Witness ==
    /\ render.done
    /\ render.order # <<>>
    /\ render.epoll = [error |-> FALSE, fds |-> <<"listen", "stdin">>]
    /\ ~running

(* C30: the render loop never observes a partially written layer stack:    *)
(* when it has gone through a client's layers, the layer count and every   *)
(* layer it read belong to one submitted stack, and the worker was not     *)
(* writing the stack while the loop was in it.                             *)
C30_NoPartialStack ==
    /\ update_layers.pc = "done" => Cardinality(update_layers.seen) <= 1
    /\ update_layers.pc \in {"test", "body"} => layer_sync.todo = {}

(* C31: the render thread reads the client table and the active-primary    *)
(* index only while it holds global_state_lock, so the z-sort never sees   *)
(* the index change between its test (>= 0) and its use as an array index. *)
C31_TableReadUnderLock ==
    /\ rloop.pc \in {"test", "set"} => global_state_lock = LockRender
    /\ ~rloop.torn

(* C32: the holder of global_state_lock never blocks: the render thread    *)
(* does not wait in os_thread_join with the lock held, and so never waits  *)
(* for a worker that itself waits for the lock.                            *)
C32_LockHolderNeverBlocks ==
    /\ ~(rloop.pc = "join" /\ global_state_lock = LockRender)
    /\ \A i \in Clients :
           ~(rloop.pc = "join" /\ rloop.slot = i /\ worker[i].pc = "exiting")

RtSmallestK(last_input, period, lo) ==
    IF last_input > lo \/ period = 0 THEN 0
    ELSE (lo - last_input) \div period + 1

(* C34: a u_rt_helper_predict that returns gives the smallest time          *)
(* last_input + k * period, k >= 0, that is later than both the clock and   *)
(* the last returned time, keeps it as the last returned time, and gives a  *)
(* wake-up time one period before it; u_rt_helper_new_sample writes         *)
(* last_input and period and leaves the ring, the frame counter and the     *)
(* last returned time alone.                                                *)
C34_PredictSmallestStep ==
    [][/\ (u_rt_helper_predict /\ rt_ret'.frame_id = urth'.frame_counter) =>
              LET lo == IF rt_now < urth.last_returned THEN urth.last_returned ELSE rt_now
                  k == RtSmallestK(urth.last_input, urth.period, lo)
                  r == rt_ret'
              IN  /\ r.predicted_display_time = urth.last_input + k * urth.period
                  /\ r.predicted_display_time > lo
                  /\ r.wake_up_time = U64(r.predicted_display_time - urth.period + UintMod)
                  /\ r.period = urth.period
                  /\ urth'.last_returned = r.predicted_display_time
       /\ \A predict \in 0..MaxRtTime, min_period \in 0..MaxRtPeriod :
              u_rt_helper_new_sample(predict, min_period) =>
                  /\ urth'.last_input = predict
                  /\ urth'.period = min_period
                  /\ urth'.frames = urth.frames
                  /\ urth'.frame_counter = urth.frame_counter
                  /\ urth'.last_returned = urth.last_returned]_vars

\* A predict has just returned a time two or more periods after the
\* sample's, above an earlier returned time.
C34_Witness ==
    /\ rt_status = "ok"
    /\ rt_prev # -1
    /\ rt_ret.frame_id = urth.frame_counter
    /\ urth.last_returned = rt_ret.predicted_display_time
    /\ urth.period > 0
    /\ rt_ret.predicted_display_time >= urth.last_input + 2 * urth.period
    /\ rt_ret.wake_up_time = rt_ret.predicted_display_time - urth.period

(* C35: dt_mark_point and dt_info, called with a frame id that dt_predict  *)
(* has handed out, change no record but the one that holds that frame id:  *)
(* the record of another frame in the same ring slot is left alone.        *)
C35_OnlyOwnRecord ==
    [][\A frame_id \in 0..(dt.next_frame_id - 1) :
           ((\E point \in TimingPoints : dt_mark_point(point, frame_id))
            \/ (dt_last'.op = "info" /\ dt_last'.frame_id = frame_id /\ dt_infos' # dt_infos))
           => \A i \in 0..(NUM_FRAMES - 1) :
                  dt'.frames[i] # dt.frames[i] => dt.frames[i].frame_id = frame_id]_vars

(* C36: whatever feedback dt_info is given, app_time_ns stays within       *)
(* 0..app_time_max_ns: it is not raised above the maximum and the uint64_t *)
(* value is not taken below zero.                                          *)
C36_AppTimeWithinMax ==
    dt.app_time_ns <= dt.app_time_max_ns

\* The states a slot of the helper's ring may go to from a state in one
\* call of predict or of a mark function.
RtMayFollow(from, to) ==
    \/ from = to
    \/ from = U_RT_READY /\ to = U_RT_PREDICTED
    \/ from = U_RT_PREDICTED /\ to = U_RT_WAIT_LEFT
    \/ from = U_RT_WAIT_LEFT /\ to \in {U_RT_BEGUN, U_RT_READY}
    \/ from = U_RT_BEGUN /\ to = U_RT_READY

(* C37: in the helper's ring a slot has frame_id -1 exactly when it is      *)
(* READY; predict and the mark functions move a slot only along READY,      *)
(* PREDICTED, WAIT_LEFT, BEGUN, READY (or to READY from WAIT_LEFT); the     *)
(* frame ids handed out count up from 1; and predict takes a slot only when *)
(* it is READY.                                                             *)
C37_RingLifecycle ==
    [][/\ \A i \in 0..(RtNumFrames - 1) :
              (urth'.frames[i].frame_id = -1) <=> (urth'.frames[i].state = U_RT_READY)
       /\ urth'.frames # u_rt_helper_client_clear_frames =>
              \A i \in 0..(RtNumFrames - 1) :
                  RtMayFollow(urth.frames[i].state, urth'.frames[i].state)
       /\ u_rt_helper_predict =>
              /\ urth'.frame_counter = urth.frame_counter + 1
              /\ urth'.frames[RtIndex(urth'.frame_counter)].frame_id = urth'.frame_counter =>
                     urth.frames[RtIndex(urth'.frame_counter)].state = U_RT_READY]_vars

(* C38: u_rt_helper_predict always terminates: the search for the next      *)
(* display time never runs without end, for a freshly initialised helper    *)
(* and for a helper whose last sample had a period of 0 included.           *)
C38_PredictTerminates == rt_status # "hung"

(* C39: update_server_state never reads the client table at an index        *)
(* outside 0..IPC_MAX_CLIENTS-1; with no active primary (index -1) it does  *)
(* not read the entry at index -1.                                          *)
C39_TableIndexInRange == \A i \in Clients : worker[i].reads \subseteq Clients

\* The visible and focused flags of the client in slot i of table t.
SessionFlags(t, i) ==
    <<t[i].client_state.session_visible, t[i].client_state.session_focused>>

(* C40: whenever a handler's update_server_state changes the                *)
(* session_visible or session_focused flag of a client that stays           *)
(* connected, the client's queue holds afterwards a pending state-change    *)
(* event of that call which carries the new flags; the former primary       *)
(* client included when the server falls back to no active primary.         *)
C40_FlagChangeSendsEvent ==
    [][\A i \in Clients :
          (/\ threads[i].server_thread_index >= 0
           /\ threads'[i].server_thread_index >= 0
           /\ SessionFlags(threads', i) # SessionFlags(threads, i))
          => \E e \in EventSlots :
                 /\ threads'[i].queued_events[e].pending
                 /\ threads'[i].queued_events[e].type = XRT_COMPOSITOR_EVENT_STATE_CHANGE
                 /\ threads'[i].queued_events[e].timestamp = srv_now'
                 /\ threads'[i].queued_events[e].visible = threads'[i].client_state.session_visible
                 /\ threads'[i].queued_events[e].focused = threads'[i].client_state.session_focused]_vars

=============================================================================
